---- MODULE Spec2Model ----
(***************************************************************************)
(* Model of the illef-workflow runner: the scheduler actor loop            *)
(* (runner/scheduler.rs), the execution engine (runner/executor.rs) and    *)
(* the execution store (common/db.rs).                                     *)
(*                                                                         *)
(* Time is counted in whole seconds since the start of the scheduler; the  *)
(* start is taken to be midnight of a day that matches every day-of-month, *)
(* month and day-of-week field used below.                                 *)
(***************************************************************************)
EXTENDS Integers, Sequences, FiniteSets, TLC

(***************************************************************************)
(* Bounds of the model.                                                    *)
(***************************************************************************)
MaxTime == 2        \* Spec: the clock stops here
MaxClock == 8       \* SpecClock: the clock stops here, past the due window
MaxQueue == 2       \* cap on WorkflowState.queue (unbounded VecDeque)
MaxExec == 2        \* cap on the number of execution tasks ever spawned
DueHorizon == 10    \* times and occurrences explored for is_due alone
MaxFields == 6      \* cron evaluation alone: expressions of 4..MaxFields fields
MaxChan == 1        \* SpecChan: commands waiting in the command channel
MaxNotices == 1     \* SpecChan: config-change notices waiting
MaxChanTime == 1    \* SpecChan: the clock stops here
MaxChanExec == 1    \* SpecChan: cap on the number of execution tasks spawned
MaxRunExec == 1     \* SpecRun: cap on the number of execution tasks spawned
MaxStoreExec == 2   \* SpecStore: cap on the number of execution tasks spawned
MaxRunTime == 1     \* SpecRun, SpecStore: the clock stops here
MaxOut == 3         \* SpecRun: length of the stdout of a message script
MaxLoopChan == 1    \* SpecLoop: commands waiting in the command channel
MaxLoopExec == 1    \* SpecLoop: cap on the number of execution tasks spawned
MaxLoopTime == 1    \* SpecLoop: the clock stops here
MaxLogExec == 2     \* SpecLog: cap on the number of execution tasks spawned
MaxRows == 3        \* SpecQuery: rows of the executions table
MaxStart == 1       \* SpecQuery: start times of the rows
MaxLimit == 2       \* SpecQuery: the limits asked for
MaxReloadChan == 2  \* SpecReload: commands waiting in the command channel
MaxTailExec == 1    \* SpecTail: cap on the number of execution tasks spawned

(***************************************************************************)
(* Program constants.                                                      *)
(***************************************************************************)
DueWindow == 5      \* is_due: chrono::Duration::seconds(5)
PollInterval == 60  \* scheduler_loop: Duration::from_secs(60)
ChannelCapacity == 32   \* scheduler::start: mpsc::channel(32)
NoticeCapacity == 4     \* run: mpsc::channel::<()>(4)
StatusLimit == 50       \* get_workflow_status: get_executions(.., 50)

Names == {"a", "b"}
\* the names of the Trigger commands received
TriggerNames == {"a"}

\* Option<T>: None is the empty sequence, Some(x) a sequence of one element.
None == <<>>
Some(x) == <<x>>

Min(S) == CHOOSE x \in S : \A y \in S : x <= y

(***************************************************************************)
(* Cron expressions.  An expression is the sequence of its whitespace      *)
(* separated fields; a field is either "*" (Star) or a list of values.     *)
(***************************************************************************)
Star == [any |-> TRUE, vals |-> {}]
Only(vals) == [any |-> FALSE, vals |-> vals]

\* the values a field may list, by its position
FieldRange(i) ==
    CASE i = 1 -> 0..59
      [] i = 2 -> 0..59
      [] i = 3 -> 0..23
      [] i = 4 -> 1..31
      [] i = 5 -> 1..12
      [] i = 6 -> 1..7
      [] OTHER -> 1970..2100

\* cron "1 * * * * *": second 1 of every minute
CronA == <<Only({1}), Star, Star, Star, Star, Star>>
\* cron "2 * * * * *": second 2 of every minute
CronB == <<Only({2}), Star, Star, Star, Star, Star>>

\* normalize_cron that returns every expression as it is
normalize_cron_verbatim(expr) ==
    IF Len(expr) = 5 THEN expr ELSE expr

\* normalize_cron: a 5-field expression gets a literal 0 seconds field
\* in front, anything else is returned as it is.
normalize_cron(expr) ==
    IF Len(expr) = 5 THEN <<Only({0})>> \o expr ELSE expr

\* The times up to which occurrences are enumerated.
Horizon == MaxTime + MaxClock + PollInterval

Matches(field, v) == field.any \/ v \in field.vals

\* Schedule::from_str: Err (None) unless the expression has 6 or 7 fields
\* whose values are in range; otherwise the schedule, represented by the
\* set of its occurrence times.
ScheduleFromStr(expr) ==
    IF /\ Len(expr) \in {6, 7}
       /\ \A i \in 1..Len(expr) :
            \/ expr[i].any
            \/ (expr[i].vals # {} /\ expr[i].vals \subseteq FieldRange(i))
    THEN Some({t \in 0..Horizon :
                 /\ Matches(expr[1], t % 60)
                 /\ Matches(expr[2], (t \div 60) % 60)
                 /\ Matches(expr[3], (t \div 3600) % 24)})
    ELSE None

\* schedule.after(t).next(): the first occurrence strictly after t.
After(schedule, t) ==
    LET later == {x \in schedule : x > t}
    IN  IF later = {} THEN None ELSE Some(Min(later))

\* is_due with a window other than the source's: the occurrence at the
\* window start counts as well.
is_due_inclusive(schedule, now) ==
    LET window_start == now - DueWindow - 1
        t == After(schedule, window_start)
    IN  IF t # None THEN t[1] <= now ELSE FALSE

\* is_due: the first occurrence after now - 5s is <= now.
is_due(schedule, now) ==
    LET window_start == now - DueWindow
        t == After(schedule, window_start)
    IN  IF t # None THEN t[1] <= now ELSE FALSE

(***************************************************************************)
(* Workflow definitions (common/types.rs) and the definition sets used.    *)
(***************************************************************************)
WorkflowConfig(name, cron, script, message_script) ==
    [name |-> name, cron |-> cron, script |-> script,
     message_script |-> message_script]

\* the configuration the runner starts with
Cfg0 == <<WorkflowConfig("a", CronA, "s1", None),
          WorkflowConfig("b", CronB, "s1", None)>>
\* the script of "a" changed
Cfg1 == <<WorkflowConfig("a", CronA, "s2", None),
          WorkflowConfig("b", CronB, "s1", None)>>
\* "a" removed
Cfg2 == <<WorkflowConfig("b", CronB, "s1", None)>>

ReloadConfigs == {Cfg1, Cfg2}

\* config.workflows.iter().find(|w| w.name == name)
FindWorkflow(cfg, name) ==
    IF \E i \in 1..Len(cfg) : cfg[i].name = name
    THEN Some(cfg[Min({i \in 1..Len(cfg) : cfg[i].name = name})])
    ELSE None

VARIABLES
    config,     \* scheduler_loop: the definition set in use
    states,     \* scheduler_loop: HashMap<String, WorkflowState>
    tasks,      \* the spawned execution tasks that have not finished
    nextId,     \* the next fresh execution id
    db,         \* the executions table, keyed by id
    now,        \* wall-clock time in seconds
    wake,       \* the time at which the current sleep of the loop ends
    fired,      \* log of the dispatches made by fire_due_workflows
    definedThroughout,  \* per name: defined, with the same cron, since the start
    dueSched,   \* is_due alone: the schedule
    dueNow,     \* is_due alone: the time
    dueResult,  \* is_due alone: the result, once evaluated
    cronExpr,   \* cron evaluation alone: the expression of the workflow
    cronNow,    \* cron evaluation alone: the time
    cronResult, \* cron evaluation alone: what each evaluation site gave
    file,       \* the config file, as load_config finds it
    notices,    \* run: the number of notices waiting in config_rx
    chan,       \* the commands waiting in the scheduler's channel
    lastCmd,    \* the command the scheduler received last, if any
    sent,       \* the notifications dispatched, in order
    panicked,   \* the execution tasks that ended in a panic
    logs,       \* the log files: the parts written to each, by execution id
    closed,     \* every sender of the scheduler's channel has been dropped
    loop,       \* scheduler_loop: "select" while it runs, "stopped" after break
    query,      \* get_executions alone: the workflow and the limit asked for
    queryResult,    \* get_executions alone: what the store returned, once asked
    watching,   \* run: watch_config has installed the watcher
    reloaded,   \* run: the definitions the reload task loaded and has to send
    log_lines,      \* App: the lines of the log shown
    log_file_pos,   \* App: the offset up to which the log was read
    log_path,       \* App: the log file followed, if any
    viewer      \* App: where load_log_from_start or poll_log_updates stands

vars == <<config, states, tasks, nextId, db, now, wake, fired,
          definedThroughout, dueSched, dueNow, dueResult,
          cronExpr, cronNow, cronResult,
          file, notices, chan, lastCmd,
          sent, panicked, logs,
          closed, loop, query, queryResult,
          watching, reloaded, log_lines, log_file_pos, log_path, viewer>>

schedVars == <<config, states, tasks, nextId, db, now, wake, fired,
               definedThroughout>>
dueVars == <<dueSched, dueNow, dueResult>>
cronVars == <<cronExpr, cronNow, cronResult>>
\* the variables the scheduler and the executions do not touch
chanVars == <<file, notices, chan, lastCmd>>
runVars == <<sent, panicked, logs>>
loopVars == <<closed, loop>>
queryVars == <<query, queryResult>>
reloadVars == <<watching, reloaded>>
tailVars == <<log_lines, log_file_pos, log_path, viewer>>
\* the parts only the reload task and the log viewer touch
sideVars == <<queryVars, reloadVars, tailVars>>
restVars == <<dueVars, cronVars, chanVars, runVars, loopVars, sideVars>>

\* the values of the variables of a part that is not exercised
DueIdle == dueSched = {} /\ dueNow = 0 /\ dueResult = None
CronIdle == cronExpr = << >> /\ cronNow = 0 /\ cronResult = None
ChanIdle ==
    /\ file = [ok |-> TRUE, workflows |-> Cfg0]
    /\ notices = 0
    /\ chan = << >>
    /\ lastCmd = None
RunIdle ==
    /\ sent = << >>
    /\ panicked = {}
    /\ logs = << >>
LoopIdle == closed = FALSE /\ loop = "select"
QueryIdle == query = None /\ queryResult = None
ReloadIdle == watching = TRUE /\ reloaded = None
TailIdle ==
    /\ log_lines = << >>
    /\ log_file_pos = 0
    /\ log_path = None
    /\ viewer = [pc |-> "idle", current_len |-> 0]
\* no query is made, the watcher is installed, no log is viewed
SideIdle == QueryIdle /\ ReloadIdle /\ TailIdle

\* WorkflowState::new
WorkflowState_new == [running |-> FALSE, queue |-> 0]

\* the task spawned by trigger_workflow; it runs execute_workflow with the
\* name and script captured at the dispatch; local holds the status and the
\* exit code of execute_workflow once the script has ended
NewTask(id, wf) ==
    [id |-> id, name |-> wf.name, script |-> wf.script,
     message_script |-> wf.message_script, pc |-> "start", local |-> None]

InFlight(name) == {t \in tasks : t.name = name}

\* trigger_workflow without the check of the running flag
trigger_workflow_unguarded(wf, S) ==
    LET sts == IF wf.name \in DOMAIN S.states THEN S.states
               ELSE S.states @@ (wf.name :> WorkflowState_new)
    IN  [S EXCEPT !.states = [sts EXCEPT ![wf.name].running = TRUE],
                  !.tasks = @ \cup {NewTask(S.nextId, wf)},
                  !.nextId = @ + 1]

\* trigger_workflow, up to and including the spawn of the task.
\* S holds the states table, the tasks and the id counter.
trigger_workflow(wf, S) ==
    LET sts == IF wf.name \in DOMAIN S.states THEN S.states
               ELSE S.states @@ (wf.name :> WorkflowState_new)
        state == sts[wf.name]
    IN  IF state.running
        THEN [S EXCEPT !.states = [sts EXCEPT ![wf.name].queue = @ + 1]]
        ELSE [S EXCEPT !.states = [sts EXCEPT ![wf.name].running = TRUE],
                       !.tasks = @ \cup {NewTask(S.nextId, wf)},
                       !.nextId = @ + 1]

\* the loop of fire_due_workflows from workflow i on
RECURSIVE FireFrom(_, _, _, _)
FireFrom(cfg, i, t, S) ==
    IF i > Len(cfg) THEN S
    ELSE LET wf == cfg[i]
             schedule == ScheduleFromStr(normalize_cron(wf.cron))
         IN  IF schedule = None THEN FireFrom(cfg, i + 1, t, S)
             ELSE IF is_due(schedule[1], t)
                  THEN FireFrom(cfg, i + 1, t,
                         [trigger_workflow(wf, S) EXCEPT !.fired = @ \cup
                            {[name |-> wf.name,
                              occ |-> After(schedule[1], t - DueWindow)[1],
                              at |-> t]}])
                  ELSE FireFrom(cfg, i + 1, t, S)

\* fire_due_workflows that returns at the first expression that does not
\* parse
fire_due_workflows_returning(cfg, t, S) ==
    LET bad == {i \in 1..Len(cfg) :
                   ScheduleFromStr(normalize_cron(cfg[i].cron)) = None}
    IN  FireFrom(IF bad = {} THEN cfg ELSE SubSeq(cfg, 1, Min(bad) - 1),
                 1, t, S)

fire_due_workflows(cfg, t, S) == FireFrom(cfg, 1, t, S)

\* the earliest upcoming occurrence over workflows i.. with a valid cron
RECURSIVE EarliestFrom(_, _, _, _)
EarliestFrom(cfg, i, t, earliest) ==
    IF i > Len(cfg) THEN earliest
    ELSE LET schedule == ScheduleFromStr(normalize_cron(cfg[i].cron))
             next == IF schedule = None THEN None ELSE After(schedule[1], t)
         IN  IF next = None THEN EarliestFrom(cfg, i + 1, t, earliest)
             ELSE EarliestFrom(cfg, i + 1, t,
                    IF earliest # None /\ next[1] < earliest[1] THEN next
                    ELSE IF earliest # None THEN earliest
                    ELSE next)

\* compute_next_wake: the delay until the earliest occurrence, if any
compute_next_wake(cfg, t) ==
    LET earliest == EarliestFrom(cfg, 1, t, None)
    IN  IF earliest = None THEN None
        ELSE IF earliest[1] - t > 0 THEN Some(earliest[1] - t)
        ELSE Some(0)    \* 100 ms

\* a loop that sleeps for the whole fallback interval whatever is scheduled
NextWakePolling(cfg, t) == t + PollInterval

\* top of scheduler_loop: the end of the next sleep
NextWake(cfg, t) ==
    LET next_wake == compute_next_wake(cfg, t)
    IN  IF next_wake # None THEN t + next_wake[1] ELSE t + PollInterval

SchedState == [states |-> states, tasks |-> tasks, nextId |-> nextId,
               fired |-> fired]

\* the effect of a dispatch on the scheduler's variables; the caps on the
\* queue and on the number of executions are guards
Becomes(S) ==
    /\ S.nextId <= MaxExec + 1
    /\ \A n \in DOMAIN S.states : S.states[n].queue <= MaxQueue
    /\ states' = S.states
    /\ tasks' = S.tasks
    /\ nextId' = S.nextId
    /\ fired' = S.fired

(***************************************************************************)
(* The scheduler loop (scheduler_loop): one action per branch of the       *)
(* select; every one ends at the top of the loop, where the next wake is   *)
(* computed from the definition set then in use.  The command received is  *)
(* an input of the action.                                                 *)
(***************************************************************************)

\* a timer branch that waits until no execution is in flight
TimerWakeWhenIdle ==
    /\ now >= wake
    /\ tasks = {}
    /\ Becomes(fire_due_workflows(config, now, SchedState))
    /\ wake' = NextWake(config, now)
    /\ UNCHANGED <<config, db, now, definedThroughout>>

\* the sleep elapsed: fire_due_workflows
TimerWake ==
    /\ now >= wake
    /\ Becomes(fire_due_workflows(config, now, SchedState))
    /\ wake' = NextWake(config, now)
    /\ UNCHANGED <<config, db, now, definedThroughout>>

\* which names have had their present cron expression in the definition
\* set ever since the scheduler started
ThroughoutAfterReload(new_config) ==
    [n \in Names |->
        LET old == FindWorkflow(config, n)
            new == FindWorkflow(new_config, n)
        IN  /\ definedThroughout[n]
            /\ old # None
            /\ new # None
            /\ old[1].cron = new[1].cron]

\* Reload that also forgets the run-state table
HandleReloadForgetting(new_config) ==
    /\ config' = new_config
    /\ states' = << >>
    /\ definedThroughout' = ThroughoutAfterReload(new_config)
    /\ wake' = NextWake(new_config, now)
    /\ UNCHANGED <<tasks, nextId, db, now, fired>>

\* cmd = rx.recv() gives Some(SchedulerCommand::Reload(new_config))
HandleReload(new_config) ==
    /\ config' = new_config
    /\ definedThroughout' = ThroughoutAfterReload(new_config)
    /\ wake' = NextWake(new_config, now)
    /\ UNCHANGED <<states, tasks, nextId, db, now, fired>>

\* the Trigger branch that makes a run-state entry for any name
HandleTriggerEntering(name) ==
    LET wf == FindWorkflow(config, name)
    IN  /\ IF wf # None
           THEN Becomes(trigger_workflow(wf[1], SchedState))
           ELSE /\ states' = IF name \in DOMAIN states THEN states
                              ELSE states @@ (name :> WorkflowState_new)
                /\ UNCHANGED <<tasks, nextId, fired>>
        /\ wake' = NextWake(config, now)
        /\ UNCHANGED <<config, db, now, definedThroughout>>

\* cmd = rx.recv() gives Some(SchedulerCommand::Trigger(name))
HandleTrigger(name) ==
    LET wf == FindWorkflow(config, name)
    IN  /\ IF wf # None
           THEN Becomes(trigger_workflow(wf[1], SchedState))
           ELSE UNCHANGED <<states, tasks, nextId, fired>>
        /\ wake' = NextWake(config, now)
        /\ UNCHANGED <<config, db, now, definedThroughout>>

(***************************************************************************)
(* The execution engine (execute_workflow) and the completion handler of   *)
(* the spawned task.  An execution is suspended for a noticeable time only *)
(* while its script runs, so it has two steps: up to the spawn of the      *)
(* script, and from the exit of the script to the return.  Each step can   *)
(* end early with Err at the `?` operators it contains.  Rows of the       *)
(* executions table carry no timestamps here, and the log files are not    *)
(* followed.                                                               *)
(***************************************************************************)
SetTask(t, u) == tasks' = (tasks \ {t}) \cup {u}

log_path_for(workflow, execution_id) == <<workflow, execution_id>>

\* insert_execution of the row built at executor.rs 37-45
insert_execution(table, t) ==
    table @@ (t.id :>
        [id |-> t.id, workflow |-> t.name, status |-> "Running",
         exit_code |-> None, log_path |-> log_path_for(t.name, t.id)])

\* lines 30-67: the Running row is inserted, the log file created, the
\* starting line written and the script spawned
ExecStart(t) ==
    /\ t.pc = "start"
    /\ db' = insert_execution(db, t)
    /\ SetTask(t, [t EXCEPT !.pc = "run"])
    /\ UNCHANGED <<config, states, nextId, now, wake, fired, definedThroughout>>

\* lines 33-35, 47-50: create_dir_all or insert_execution fails
ExecStartFailsBeforeInsert(t) ==
    /\ t.pc = "start"
    /\ SetTask(t, [t EXCEPT !.pc = "returned"])
    /\ UNCHANGED <<config, states, nextId, db, now, wake, fired, definedThroughout>>

\* lines 55, 62: File::create or the write of the starting line fails,
\* after the Running row was inserted
ExecStartFailsAfterInsert(t) ==
    /\ t.pc = "start"
    /\ db' = insert_execution(db, t)
    /\ SetTask(t, [t EXCEPT !.pc = "returned"])
    /\ UNCHANGED <<config, states, nextId, now, wake, fired, definedThroughout>>

\* what the script did: exited with a code, was killed by a signal, or
\* could not be spawned
Outcomes == {"exit0", "exit1", "signal", "spawn_failure"}

\* lines 69-97: (status, exit_code) of an outcome
ScriptResult(outcome) ==
    CASE outcome = "exit0" -> [status |-> "Success", exit_code |-> 0]
      [] outcome = "exit1" -> [status |-> "Failed", exit_code |-> 1]
      [] outcome = "signal" -> [status |-> "Failed", exit_code |-> -1]
      [] OTHER -> [status |-> "Failed", exit_code |-> -1]

\* update_execution_finished: UPDATE ... WHERE id = ?4
update_execution_finished(table, id, status, exit_code) ==
    [i \in DOMAIN table |->
        IF i = id
        THEN [table[i] EXCEPT !.status = status,
                              !.exit_code = Some(exit_code)]
        ELSE table[i]]

\* lines 64-124: the script has ended (or could not be spawned), the log is
\* written, the completed status persisted, the notification sent, Ok(())
ExecFinish(t, outcome) ==
    /\ t.pc = "run"
    /\ db' = update_execution_finished(db, t.id, ScriptResult(outcome).status,
                                       ScriptResult(outcome).exit_code)
    /\ SetTask(t, [t EXCEPT !.pc = "returned"])
    /\ UNCHANGED <<config, states, nextId, now, wake, fired, definedThroughout>>

\* lines 71-93, 103: a write to the log file or update_execution_finished
\* fails; the row stays as it is
ExecFinishFails(t) ==
    /\ t.pc = "run"
    /\ SetTask(t, [t EXCEPT !.pc = "returned"])
    /\ UNCHANGED <<config, states, nextId, db, now, wake, fired, definedThroughout>>

\* the completion handler that leaves the flag cleared after the pop
AfterCompletionCleared(state) ==
    IF state.queue > 0
    THEN [running |-> FALSE, queue |-> state.queue - 1]
    ELSE [running |-> FALSE, queue |-> state.queue]

\* scheduler.rs 173-179: running = false; if queue.pop_front().is_some()
\* then running = true (and nothing else)
AfterCompletion(state) ==
    IF state.queue > 0
    THEN [running |-> TRUE, queue |-> state.queue - 1]
    ELSE [running |-> FALSE, queue |-> state.queue]

\* a task that updates the run-state as soon as the store fails it, be it
\* before execute_workflow has returned
CompleteBeforeReturn(t) ==
    /\ t.pc \in {"run", "returned"}
    /\ states' = IF t.name \in DOMAIN states
                 THEN [states EXCEPT ![t.name] = AfterCompletion(@)]
                 ELSE states
    /\ tasks' = IF t.pc = "returned" THEN tasks \ {t} ELSE tasks
    /\ UNCHANGED <<config, nextId, db, now, wake, fired, definedThroughout>>

\* scheduler.rs 167-180: execute_workflow has returned (Ok or Err); the
\* task takes the lock, updates the run-state and ends
Complete(t) ==
    /\ t.pc = "returned"
    /\ states' = IF t.name \in DOMAIN states
                 THEN [states EXCEPT ![t.name] = AfterCompletion(@)]
                 ELSE states
    /\ tasks' = tasks \ {t}
    /\ UNCHANGED <<config, nextId, db, now, wake, fired, definedThroughout>>

\* a second of wall-clock time passes; a sleep that has elapsed ends the
\* select (by its timer branch or by a command) within the same second
Tick(limit) ==
    /\ now < limit
    /\ now < wake
    /\ now' = now + 1
    /\ UNCHANGED <<config, states, tasks, nextId, db, wake, fired, definedThroughout>>

Init ==
    /\ config = Cfg0
    /\ states = << >>
    /\ tasks = {}
    /\ nextId = 1
    /\ db = << >>
    /\ now = 0
    /\ wake = NextWake(Cfg0, 0)
    /\ fired = {}
    /\ definedThroughout = [n \in Names |-> FindWorkflow(Cfg0, n) # None]
    /\ DueIdle
    /\ CronIdle
    /\ ChanIdle
    /\ RunIdle
    /\ LoopIdle
    /\ SideIdle

Next ==
    \/ (TimerWake /\ UNCHANGED restVars)
    \/ \E n \in TriggerNames : HandleTrigger(n) /\ UNCHANGED restVars
    \/ \E c \in ReloadConfigs : HandleReload(c) /\ UNCHANGED restVars
    \/ \E t \in tasks : ExecStart(t) /\ UNCHANGED restVars
    \/ \E t \in tasks : ExecStartFailsBeforeInsert(t) /\ UNCHANGED restVars
    \/ \E t \in tasks : ExecStartFailsAfterInsert(t) /\ UNCHANGED restVars
    \/ \E t \in tasks : \E o \in Outcomes : ExecFinish(t, o) /\ UNCHANGED restVars
    \/ \E t \in tasks : ExecFinishFails(t) /\ UNCHANGED restVars
    \/ \E t \in tasks : Complete(t) /\ UNCHANGED restVars
    \/ (Tick(MaxTime) /\ UNCHANGED restVars)

Spec == Init /\ [][Next]_vars

\* the same system followed for longer, past the due window of the first
\* occurrences
NextClock ==
    \/ (TimerWake /\ UNCHANGED restVars)
    \/ \E n \in TriggerNames : HandleTrigger(n) /\ UNCHANGED restVars
    \/ \E c \in ReloadConfigs : HandleReload(c) /\ UNCHANGED restVars
    \/ \E t \in tasks : ExecStart(t) /\ UNCHANGED restVars
    \/ \E t \in tasks : ExecStartFailsBeforeInsert(t) /\ UNCHANGED restVars
    \/ \E t \in tasks : ExecStartFailsAfterInsert(t) /\ UNCHANGED restVars
    \/ \E t \in tasks : \E o \in Outcomes : ExecFinish(t, o) /\ UNCHANGED restVars
    \/ \E t \in tasks : ExecFinishFails(t) /\ UNCHANGED restVars
    \/ \E t \in tasks : Complete(t) /\ UNCHANGED restVars
    \/ (Tick(MaxClock) /\ UNCHANGED restVars)

SpecClock == Init /\ [][NextClock]_vars

(***************************************************************************)
(* is_due on its own: a schedule (any set of occurrence times) and a time  *)
(* are drawn, then is_due is evaluated on them.                            *)
(***************************************************************************)
InitDue ==
    /\ config = Cfg0
    /\ states = << >>
    /\ tasks = {}
    /\ nextId = 1
    /\ db = << >>
    /\ now = 0
    /\ wake = NextWake(Cfg0, 0)
    /\ fired = {}
    /\ definedThroughout = [n \in Names |-> FindWorkflow(Cfg0, n) # None]
    /\ dueSched \in SUBSET (0..DueHorizon)
    /\ dueNow \in 0..DueHorizon
    /\ dueResult = None
    /\ CronIdle
    /\ ChanIdle
    /\ RunIdle
    /\ LoopIdle
    /\ SideIdle

DueEval ==
    /\ dueResult = None
    /\ dueResult' = Some(is_due(dueSched, dueNow))
    /\ UNCHANGED <<dueSched, dueNow>>
    /\ UNCHANGED <<schedVars, cronVars, chanVars, runVars, loopVars, sideVars>>

NextDue == DueEval

SpecDue == InitDue /\ [][NextDue]_vars

(***************************************************************************)
(* Cron evaluation on its own: an expression and a time are drawn, then    *)
(* the expression is evaluated at each of the three sites that evaluate    *)
(* one: compute_next_wake, fire_due_workflows and get_next_run.            *)
(***************************************************************************)

\* get_next_run: the first occurrence after t of the normalized expression
get_next_run(cron_expr, t) ==
    LET schedule == ScheduleFromStr(normalize_cron(cron_expr))
    IN  IF schedule = None THEN None ELSE After(schedule[1], t)

\* the fields the expressions explored are made of: "*", "0" and "1"
CronFields == {Star, Only({0}), Only({1})}
CronExprs == UNION {[1..n -> CronFields] : n \in 4..MaxFields}
CronTimes == 0..1

\* the state of a scheduler that has dispatched nothing yet
NoDispatch == [states |-> << >>, tasks |-> {}, nextId |-> 1, fired |-> {}]

SchedIdle ==
    /\ config = Cfg0
    /\ states = << >>
    /\ tasks = {}
    /\ nextId = 1
    /\ db = << >>
    /\ now = 0
    /\ wake = NextWake(Cfg0, 0)
    /\ fired = {}
    /\ definedThroughout = [n \in Names |-> FindWorkflow(Cfg0, n) # None]

InitCron ==
    /\ SchedIdle
    /\ DueIdle
    /\ cronExpr \in CronExprs
    /\ cronNow \in CronTimes
    /\ cronResult = None
    /\ ChanIdle
    /\ RunIdle
    /\ LoopIdle
    /\ SideIdle

\* a definition set of one workflow with the expression drawn
CronConfig(expr) == <<WorkflowConfig("a", expr, "s1", None)>>

CronEval ==
    /\ cronResult = None
    /\ cronResult' =
          Some([normalized |-> normalize_cron(cronExpr),
                wake |-> compute_next_wake(CronConfig(cronExpr), cronNow),
                fires |-> fire_due_workflows(CronConfig(cronExpr), cronNow,
                                             NoDispatch).tasks # {},
                next_run |-> get_next_run(cronExpr, cronNow)])
    /\ UNCHANGED <<cronExpr, cronNow>>
    /\ UNCHANGED <<schedVars, dueVars, chanVars, runVars, loopVars, sideVars>>

NextCron == CronEval

SpecCron == InitCron /\ [][NextCron]_vars

(***************************************************************************)
(* The command channel and its senders: the config file, the watcher that  *)
(* posts a notice on every change in the directory of the file, the reload *)
(* task of run(), the TriggerWorkflow RPC, and the scheduler loop taking   *)
(* its commands from the channel.                                          *)
(***************************************************************************)

\* "* * * *": four fields, not a cron expression
CronBad == <<Star, Star, Star, Star>>
\* "a" with an expression that does not parse
Cfg3 == <<WorkflowConfig("a", CronBad, "s1", None),
          WorkflowConfig("b", CronB, "s1", None)>>

\* what the config file holds: a definition set, or text that is not one
FileOf(workflows) == [ok |-> TRUE, workflows |-> workflows]
Unparsable == [ok |-> FALSE, workflows |-> << >>]
\* what the file is changed to after the start
FileContents == {FileOf(Cfg2), FileOf(Cfg3), Unparsable}

\* load_config: Err (None) when the file cannot be read or parsed
load_config(f) == IF f.ok THEN Some(f.workflows) ELSE None

\* SchedulerCommand
Reload(new_config) == [type |-> "Reload", name |-> "", config |-> new_config]
Trigger(name) == [type |-> "Trigger", name |-> name, config |-> << >>]

\* tx.try_send(()) on the notice channel: dropped when the channel is full
try_send(n) == IF n < NoticeCapacity THEN n + 1 ELSE n

\* the file (or another file of its directory) is written; the callback of
\* watch_config posts a notice
FileChange(f) ==
    /\ notices < MaxNotices
    /\ file' = f
    /\ notices' = try_send(notices)
    /\ UNCHANGED <<chan, lastCmd>>
    /\ UNCHANGED schedVars

\* the reload task that sends an empty definition set when the file does
\* not load
ReloadTaskDefaulting ==
    /\ notices > 0
    /\ notices' = notices - 1
    /\ LET loaded == load_config(file)
           new_config == IF loaded # None THEN loaded[1] ELSE << >>
       IN  /\ Len(chan) < MaxChan
           /\ Len(chan) < ChannelCapacity
           /\ chan' = Append(chan, Reload(new_config))
    /\ UNCHANGED <<file, lastCmd>>
    /\ UNCHANGED schedVars

\* run, lines 28-40: the reload task takes a notice, loads the file and,
\* if that went well, sends Reload
ReloadTask ==
    /\ notices > 0
    /\ notices' = notices - 1
    /\ LET loaded == load_config(file)
       IN  IF loaded # None
           THEN /\ Len(chan) < MaxChan
                /\ Len(chan) < ChannelCapacity
                /\ chan' = Append(chan, Reload(loaded[1]))
           ELSE chan' = chan
    /\ UNCHANGED <<file, lastCmd>>
    /\ UNCHANGED schedVars

\* server.rs trigger_workflow, when it acknowledges: the file loads, it
\* has the name, and Trigger is sent.  (Otherwise it returns an error and
\* nothing changes.)
rpc_trigger_workflow(name) ==
    LET loaded == load_config(file)
    IN  /\ loaded # None
        /\ \E i \in 1..Len(loaded[1]) : loaded[1][i].name = name
        /\ Len(chan) < MaxChan
        /\ Len(chan) < ChannelCapacity
        /\ chan' = Append(chan, Trigger(name))
        /\ UNCHANGED <<file, notices, lastCmd>>
        /\ UNCHANGED schedVars

\* scheduler_loop, lines 63-78: rx.recv() gives the oldest command
RecvCommand ==
    /\ chan # << >>
    /\ chan' = Tail(chan)
    /\ LET cmd == Head(chan)
       IN  /\ IF cmd.type = "Reload"
              THEN HandleReload(cmd.config)
              ELSE HandleTrigger(cmd.name)
           /\ lastCmd' = Some([type |-> cmd.type, name |-> cmd.name,
                               found |-> \/ cmd.type = "Reload"
                                         \/ FindWorkflow(config, cmd.name) # None])
    /\ UNCHANGED <<file, notices>>

InitChan ==
    /\ SchedIdle
    /\ DueIdle
    /\ CronIdle
    /\ ChanIdle
    /\ RunIdle
    /\ LoopIdle
    /\ SideIdle

\* what the channel and its senders leave alone, besides the scheduler
ChanOthers == <<dueVars, cronVars, runVars, loopVars, sideVars>>

NextChan ==
    \/ \E f \in FileContents : FileChange(f) /\ UNCHANGED ChanOthers
    \/ (ReloadTask /\ UNCHANGED ChanOthers)
    \/ \E n \in TriggerNames :
          rpc_trigger_workflow(n) /\ UNCHANGED ChanOthers
    \/ (RecvCommand /\ nextId' <= MaxChanExec + 1
                    /\ UNCHANGED ChanOthers)
    \/ (TimerWake /\ nextId' <= MaxChanExec + 1 /\ UNCHANGED restVars)
    \/ \E t \in tasks : ExecStart(t) /\ UNCHANGED restVars
    \/ \E t \in tasks : ExecFinish(t, "exit0") /\ UNCHANGED restVars
    \/ \E t \in tasks : Complete(t) /\ UNCHANGED restVars
    \/ (Tick(MaxChanTime) /\ UNCHANGED restVars)

SpecChan == InitChan /\ [][NextChan]_vars

(***************************************************************************)
(* One execution in detail (execute_workflow, run_message_script,          *)
(* send_notification): a step for each part between two awaits, rows of    *)
(* the executions table with their timestamps, and the notifications       *)
(* dispatched.  Strings are sequences of characters.                       *)
(***************************************************************************)
Whitespace == {" ", "\n"}
Chars == {"k"} \cup Whitespace
Stdouts == UNION {[1..n -> Chars] : n \in 0..MaxOut}

\* str::trim
RECURSIVE TrimStart(_)
TrimStart(str) ==
    IF str # << >> /\ Head(str) \in Whitespace THEN TrimStart(Tail(str))
    ELSE str

RECURSIVE TrimEnd(_)
TrimEnd(str) ==
    IF str # << >> /\ str[Len(str)] \in Whitespace
    THEN TrimEnd(SubSeq(str, 1, Len(str) - 1))
    ELSE str

Trim(str) == TrimEnd(TrimStart(str))

\* enum MessageScriptResult
NoScript == [kind |-> "NoScript", text |-> << >>]
Body(text) == [kind |-> "Body", text |-> text]
Empty == [kind |-> "Empty", text |-> << >>]
Suppressed == [kind |-> "Suppressed", text |-> << >>]

\* MessageScriptResult::body
body(result) == IF result.kind = "Body" THEN Some(result.text) ELSE None

\* what a run of the message script can come to: it cannot be spawned, or
\* it ends with an exit code (None: killed by a signal) and some stdout
MessageRuns ==
    {[spawned |-> FALSE, code |-> None, stdout |-> << >>]} \cup
    {[spawned |-> TRUE, code |-> c, stdout |-> out] :
        c \in {None, Some(0), Some(1), Some(3)}, out \in Stdouts}
\* no message script was run
NotRun == [spawned |-> FALSE, code |-> None, stdout |-> << >>]

\* run_message_script that takes exit code 3 for any other failure
run_message_script_unsuppressed(message_script, run) ==
    IF message_script = None THEN NoScript
    ELSE IF ~run.spawned THEN Empty
    ELSE IF run.code = Some(0)
         THEN LET text == Trim(run.stdout)
              IN  IF text = << >> THEN Empty ELSE Body(text)
    ELSE Empty

\* run_message_script, given what the run of the script comes to
run_message_script(message_script, run) ==
    IF message_script = None THEN NoScript
    ELSE IF ~run.spawned THEN Empty
    ELSE IF run.code = Some(3) THEN Suppressed
    ELSE IF run.code = Some(0)
         THEN LET text == Trim(run.stdout)
              IN  IF text = << >> THEN Empty ELSE Body(text)
    ELSE Empty

DefaultBody == <<"completed successfully">>

\* NotificationConfig::default().command, as its words: what the spawned
\* task passes to execute_workflow (scheduler.rs 165)
NotificationConfig_default == <<"notify-send">>

\* send_notification with an empty default body for every status
send_notification_blank(command, workflow_name, status, custom_body) ==
    IF status = "Running" THEN << >>
    ELSE LET title == <<workflow_name,
                        IF status = "Success" THEN "succeeded" ELSE "failed">>
             default_body == << >>
             body_ == IF custom_body # None THEN custom_body[1]
                      ELSE default_body
         IN  IF command = << >> THEN << >>
             ELSE <<[title |-> title, body |-> body_]>>

\* send_notification: the notifications it dispatches (none or one)
send_notification(command, workflow_name, status, custom_body) ==
    IF status = "Running" THEN << >>
    ELSE LET title == <<workflow_name,
                        IF status = "Success" THEN "succeeded" ELSE "failed">>
             default_body == IF status = "Success" THEN DefaultBody ELSE << >>
             body_ == IF custom_body # None THEN custom_body[1]
                      ELSE default_body
         IN  IF command = << >> THEN << >>
             ELSE <<[title |-> title, body |-> body_]>>

\* executor.rs 37-45: the record of a starting execution
Execution(id, workflow, started_at) ==
    [id |-> id, workflow |-> workflow, status |-> "Running",
     started_at |-> started_at, finished_at |-> None, exit_code |-> None,
     log_path |-> log_path_for(workflow, id)]

\* insert_execution of a whole record: INSERT INTO executions
insert_execution_row(table, exec) == table @@ (exec.id :> exec)

\* UPDATE executions SET ... without the WHERE clause
update_execution_finished_all(table, id, status, finished_at, exit_code) ==
    [i \in DOMAIN table |->
        IF i = id \/ i # id
        THEN [table[i] EXCEPT !.status = status,
                              !.finished_at = Some(finished_at),
                              !.exit_code = Some(exit_code)]
        ELSE table[i]]

\* update_execution_finished on whole records:
\* UPDATE executions SET status, finished_at, exit_code WHERE id
update_execution_finished_row(table, id, status, finished_at, exit_code) ==
    [i \in DOMAIN table |->
        IF i = id
        THEN [table[i] EXCEPT !.status = status,
                              !.finished_at = Some(finished_at),
                              !.exit_code = Some(exit_code)]
        ELSE table[i]]

\* get_execution_by_id without the WHERE clause: the first row there is
get_execution_by_id_first(table, id) ==
    IF DOMAIN table # {} THEN Some(table[Min(DOMAIN table)]) ELSE None

\* get_execution_by_id: SELECT ... WHERE id
get_execution_by_id(table, id) ==
    IF id \in DOMAIN table THEN Some(table[id]) ELSE None

\* server.rs get_execution_log_path: None stands for not-found
get_execution_log_path(table, execution_id) ==
    LET exec == get_execution_by_id(table, execution_id)
    IN  IF exec = None THEN None ELSE Some(exec[1].log_path)

\* what the steps of an execution leave alone
RunRest == <<config, states, nextId, now, wake, fired, definedThroughout,
             panicked>>

\* lines 30-50: the directory of the log is made, the Running row inserted
ExecInsert(t) ==
    /\ t.pc = "start"
    /\ db' = insert_execution_row(db, Execution(t.id, t.name, now))
    /\ SetTask(t, [t EXCEPT !.pc = "inserted"])
    /\ UNCHANGED <<RunRest, sent, logs>>

\* the parts of a log file
StartingLine == [part |-> "starting", code |-> None]
StdoutPart == [part |-> "stdout", code |-> None]
StderrDelimiter == [part |-> "stderr delimiter", code |-> None]
StderrPart == [part |-> "stderr", code |-> None]
FinishedLine(exit_code) == [part |-> "finished", code |-> Some(exit_code)]
SpawnErrorLine == [part |-> "error", code |-> None]

\* File::create on the path of log_path_for, which is the execution's own:
\* the file is there and empty (truncated, had it been there)
File_create(files, id) ==
    [i \in DOMAIN files \cup {id} |-> IF i = id THEN << >> ELSE files[i]]

\* write_all on the open file: the bytes go after what is there
write_all(files, id, parts) == [files EXCEPT ![id] = @ \o parts]

\* an execution that spawns the script without the Running row
ExecOpenLogUninserted(t) ==
    /\ t.pc \in {"start", "inserted"}
    /\ logs' = write_all(File_create(logs, t.id), t.id, <<StartingLine>>)
    /\ SetTask(t, [t EXCEPT !.pc = "run"])
    /\ UNCHANGED <<RunRest, db, sent>>

\* lines 54-67: the log file is created and the starting line written;
\* then the script is spawned
ExecOpenLog(t) ==
    /\ t.pc = "inserted"
    /\ logs' = write_all(File_create(logs, t.id), t.id, <<StartingLine>>)
    /\ SetTask(t, [t EXCEPT !.pc = "run"])
    /\ UNCHANGED <<RunRest, db, sent>>

\* lines 55, 62: File::create fails, or the write of the starting line
\* fails on the file created; Err is returned
ExecOpenLogFails(t) ==
    /\ t.pc = "inserted"
    /\ logs' \in {logs, File_create(logs, t.id)}
    /\ SetTask(t, [t EXCEPT !.pc = "returned"])
    /\ UNCHANGED <<RunRest, db, sent>>

\* whether the script wrote to stderr: a script that was not spawned did not
Stderrs(outcome) == IF outcome = "spawn_failure" THEN {FALSE} ELSE BOOLEAN

\* what is written with stderr ahead of stdout
written_on_exit_stderr_first(outcome, stderr) ==
    IF outcome = "spawn_failure" THEN <<SpawnErrorLine>>
    ELSE (IF stderr THEN <<StderrDelimiter, StderrPart>> ELSE << >>)
         \o <<StdoutPart>>
         \o <<FinishedLine(ScriptResult(outcome).exit_code)>>

\* lines 69-97: what is written to the log once Command::output has
\* returned: stdout, the stderr delimiter and stderr if stderr is not
\* empty, the finished line; or the spawn-error line
written_on_exit(outcome, stderr) ==
    IF outcome = "spawn_failure" THEN <<SpawnErrorLine>>
    ELSE <<StdoutPart>>
         \o (IF stderr THEN <<StderrDelimiter, StderrPart>> ELSE << >>)
         \o <<FinishedLine(ScriptResult(outcome).exit_code)>>

\* lines 64-97: the script has ended (or could not be spawned), the log is
\* written, status and exit code are determined
ExecExit(t, outcome, stderr) ==
    /\ t.pc = "run"
    /\ stderr \in Stderrs(outcome)
    /\ logs' = write_all(logs, t.id, written_on_exit(outcome, stderr))
    /\ SetTask(t, [t EXCEPT !.pc = "exited",
                            !.local = Some([outcome |-> outcome,
                                 stderr |-> stderr,
                                 status |-> ScriptResult(outcome).status,
                                 exit_code |-> ScriptResult(outcome).exit_code,
                                 run |-> None])])
    /\ UNCHANGED <<RunRest, db, sent>>

\* what is in the log after the starting line when one of the writes of
\* lines 71-93 fails: the parts written before it
PartialWrites ==
    {SubSeq(written_on_exit(o, e), 1, n) :
        <<o, e, n>> \in {x \in Outcomes \X BOOLEAN \X (0..3) :
                          /\ x[2] \in Stderrs(x[1])
                          /\ x[3] < Len(written_on_exit(x[1], x[2]))}}

\* lines 71-93: one of the writes to the log file fails, after those before
\* it; Err is returned
ExecExitFails(t, written) ==
    /\ t.pc = "run"
    /\ logs' = write_all(logs, t.id, written)
    /\ SetTask(t, [t EXCEPT !.pc = "returned"])
    /\ UNCHANGED <<RunRest, db, sent>>

\* an execution that goes on to the notification without the update
ExecUpdateSkipped(t) ==
    /\ t.pc = "exited"
    /\ SetTask(t, [t EXCEPT !.pc = "updated"])
    /\ UNCHANGED <<RunRest, db, sent, logs>>

\* lines 99-104: the completed status is persisted
ExecUpdate(t) ==
    /\ t.pc = "exited"
    /\ db' = update_execution_finished_row(db, t.id, t.local[1].status, now,
                                           t.local[1].exit_code)
    /\ SetTask(t, [t EXCEPT !.pc = "updated"])
    /\ UNCHANGED <<RunRest, sent, logs>>

\* line 103: update_execution_finished fails; Err is returned
ExecUpdateFails(t) ==
    /\ t.pc = "exited"
    /\ SetTask(t, [t EXCEPT !.pc = "returned", !.local = None])
    /\ UNCHANGED <<RunRest, db, sent, logs>>

\* the notification dispatched for an execution, tagged with its id
Tagged(id, dispatched) ==
    [i \in 1..Len(dispatched) |->
        [id |-> id, title |-> dispatched[i].title, body |-> dispatched[i].body]]

\* an execution that records a failed message script as its own failure
ExecNotifyRecording(t, run) ==
    /\ t.pc = "updated"
    /\ LET status == t.local[1].status
           runs == status = "Success" /\ t.message_script # None
           message_result == IF status = "Success"
                             THEN run_message_script(t.message_script, run)
                             ELSE NoScript
       IN  /\ run \in (IF runs THEN MessageRuns ELSE {NotRun})
           /\ sent' = IF message_result # Suppressed
                      THEN sent \o Tagged(t.id,
                             send_notification(NotificationConfig_default,
                                               t.name, status,
                                               body(message_result)))
                      ELSE sent
           /\ db' = IF runs /\ run.code # Some(0) /\ run.code # Some(3)
                    THEN [db EXCEPT ![t.id].status = "Failed"]
                    ELSE db
           /\ SetTask(t, [t EXCEPT !.pc = "returned",
                                   !.local[1].run = IF runs THEN Some(run)
                                                    ELSE None])
    /\ UNCHANGED <<RunRest, logs>>

\* an execution that runs the message script whatever the status
ExecNotifyAnyStatus(t, run) ==
    /\ t.pc = "updated"
    /\ LET status == t.local[1].status
           runs == t.message_script # None
           message_result == run_message_script(t.message_script, run)
       IN  /\ run \in (IF runs THEN MessageRuns ELSE {NotRun})
           /\ sent' = IF message_result # Suppressed
                      THEN sent \o Tagged(t.id,
                             send_notification(NotificationConfig_default,
                                               t.name, status,
                                               body(message_result)))
                      ELSE sent
           /\ SetTask(t, [t EXCEPT !.pc = "returned",
                                   !.local[1].run = IF runs THEN Some(run)
                                                    ELSE None])
    /\ UNCHANGED <<RunRest, db, logs>>

\* lines 114-124: the message script is run if the status is Success, the
\* notification is sent unless suppressed, Ok(()) is returned
ExecNotify(t, run) ==
    /\ t.pc = "updated"
    /\ LET status == t.local[1].status
           runs == status = "Success" /\ t.message_script # None
           message_result == IF status = "Success"
                             THEN run_message_script(t.message_script, run)
                             ELSE NoScript
       IN  /\ run \in (IF runs THEN MessageRuns ELSE {NotRun})
           /\ sent' = IF message_result # Suppressed
                      THEN sent \o Tagged(t.id,
                             send_notification(NotificationConfig_default,
                                               t.name, status,
                                               body(message_result)))
                      ELSE sent
           /\ SetTask(t, [t EXCEPT !.pc = "returned",
                                   !.local[1].run = IF runs THEN Some(run)
                                                    ELSE None])
    /\ UNCHANGED <<RunRest, db, logs>>

\* the execution task panics inside execute_workflow: the task ends there,
\* nothing awaits its JoinHandle
Panic(t) ==
    /\ t.pc # "returned"
    /\ tasks' = tasks \ {t}
    /\ panicked' = panicked \cup {[id |-> t.id, name |-> t.name]}
    /\ UNCHANGED <<config, states, nextId, db, now, wake, fired,
                   definedThroughout, sent, logs>>

\* "a" with a message script
CfgMsg == <<WorkflowConfig("a", CronA, "s1", Some("m1")),
            WorkflowConfig("b", CronB, "s1", None)>>

RunConfigs == {Cfg0, CfgMsg}

InitRun ==
    /\ config \in RunConfigs
    /\ states = << >>
    /\ tasks = {}
    /\ nextId = 1
    /\ db = << >>
    /\ now = 0
    /\ wake = NextWake(config, 0)
    /\ fired = {}
    /\ definedThroughout = [n \in Names |-> FindWorkflow(config, n) # None]
    /\ sent = << >>
    /\ panicked = {}
    /\ logs = << >>
    /\ DueIdle
    /\ CronIdle
    /\ ChanIdle
    /\ LoopIdle
    /\ SideIdle

RunOthers == <<dueVars, cronVars, chanVars, loopVars, sideVars>>

NextRun ==
    \/ \E n \in TriggerNames :    \* a Trigger that starts an execution
          /\ HandleTrigger(n)
          /\ nextId' = nextId + 1
          /\ nextId' <= MaxRunExec + 1
          /\ UNCHANGED restVars
    \/ \E t \in tasks : ExecInsert(t) /\ UNCHANGED RunOthers
    \/ \E t \in tasks : ExecStartFailsBeforeInsert(t) /\ UNCHANGED restVars
    \/ \E t \in tasks : ExecOpenLog(t) /\ UNCHANGED RunOthers
    \/ \E t \in tasks : ExecOpenLogFails(t) /\ UNCHANGED RunOthers
    \/ \E t \in tasks : \E o \in Outcomes :    \* scripts silent on stderr
          ExecExit(t, o, FALSE) /\ UNCHANGED RunOthers
    \/ \E t \in tasks : ExecExitFails(t, << >>) /\ UNCHANGED RunOthers
    \/ \E t \in tasks : ExecUpdate(t) /\ UNCHANGED RunOthers
    \/ \E t \in tasks : ExecUpdateFails(t) /\ UNCHANGED RunOthers
    \/ \E t \in tasks : \E run \in MessageRuns :
          ExecNotify(t, run) /\ UNCHANGED RunOthers
    \/ \E t \in tasks : Complete(t) /\ UNCHANGED restVars
    \/ \E t \in tasks : Panic(t) /\ UNCHANGED RunOthers
    \/ (Tick(MaxRunTime) /\ UNCHANGED restVars)

SpecRun == InitRun /\ [][NextRun]_vars

(***************************************************************************)
(* The executions table over several executions: the same steps, with the  *)
(* initial definitions and the default notification command.               *)
(***************************************************************************)
InitStore ==
    /\ SchedIdle
    /\ DueIdle
    /\ CronIdle
    /\ ChanIdle
    /\ RunIdle
    /\ LoopIdle
    /\ SideIdle

NextStore ==
    \/ \E n \in TriggerNames :    \* a Trigger that starts an execution
          /\ HandleTrigger(n)
          /\ nextId' = nextId + 1
          /\ nextId' <= MaxStoreExec + 1
          /\ UNCHANGED restVars
    \/ \E t \in tasks : ExecInsert(t) /\ UNCHANGED RunOthers
    \/ \E t \in tasks : ExecStartFailsBeforeInsert(t) /\ UNCHANGED restVars
    \/ \E t \in tasks : ExecOpenLog(t) /\ UNCHANGED RunOthers
    \/ \E t \in tasks : ExecOpenLogFails(t) /\ UNCHANGED RunOthers
    \/ \E t \in tasks : \E o \in Outcomes :    \* scripts silent on stderr
          ExecExit(t, o, FALSE) /\ UNCHANGED RunOthers
    \/ \E t \in tasks : ExecExitFails(t, << >>) /\ UNCHANGED RunOthers
    \/ \E t \in tasks : ExecUpdate(t) /\ UNCHANGED RunOthers
    \/ \E t \in tasks : ExecUpdateFails(t) /\ UNCHANGED RunOthers
    \/ \E t \in tasks : \E run \in MessageRuns :
          ExecNotify(t, run) /\ UNCHANGED RunOthers
    \/ \E t \in tasks : Complete(t) /\ UNCHANGED restVars
    \/ \E t \in tasks : Panic(t) /\ UNCHANGED RunOthers
    \/ (Tick(MaxRunTime) /\ UNCHANGED restVars)

SpecStore == InitStore /\ [][NextStore]_vars

(***************************************************************************)
(* The log files over several executions: the steps of execute_workflow    *)
(* with scripts that write to stderr or not, and with a failure at any of  *)
(* the writes to the log.  No message script is configured and the clock   *)
(* stands still.                                                           *)
(***************************************************************************)
InitLog ==
    /\ SchedIdle
    /\ DueIdle
    /\ CronIdle
    /\ ChanIdle
    /\ RunIdle
    /\ LoopIdle
    /\ SideIdle

NextLog ==
    \/ \E n \in TriggerNames :    \* a Trigger that starts an execution
          /\ HandleTrigger(n)
          /\ nextId' = nextId + 1
          /\ nextId' <= MaxLogExec + 1
          /\ UNCHANGED restVars
    \/ \E t \in tasks : ExecInsert(t) /\ UNCHANGED RunOthers
    \/ \E t \in tasks : ExecStartFailsBeforeInsert(t) /\ UNCHANGED restVars
    \/ \E t \in tasks : ExecOpenLog(t) /\ UNCHANGED RunOthers
    \/ \E t \in tasks : ExecOpenLogFails(t) /\ UNCHANGED RunOthers
    \/ \E t \in tasks : \E o \in Outcomes : \E e \in BOOLEAN :
          ExecExit(t, o, e) /\ UNCHANGED RunOthers
    \/ \E t \in tasks : \E w \in PartialWrites :
          ExecExitFails(t, w) /\ UNCHANGED RunOthers
    \/ \E t \in tasks : ExecUpdate(t) /\ UNCHANGED RunOthers
    \/ \E t \in tasks : ExecUpdateFails(t) /\ UNCHANGED RunOthers
    \/ \E t \in tasks : ExecNotify(t, NotRun) /\ UNCHANGED RunOthers
    \/ \E t \in tasks : Complete(t) /\ UNCHANGED restVars

SpecLog == InitLog /\ [][NextLog]_vars

\* the next step of execute_workflow for execution id when the operation it
\* awaits succeeds: File::create and the header, the exit of the script and
\* the writes of its output, the update, the notification
ExecuteStep(id) ==
    \E t \in tasks :
        /\ t.id = id
        /\ \/ ExecOpenLog(t)
           \/ \E o \in Outcomes : \E e \in BOOLEAN : ExecExit(t, o, e)
           \/ ExecUpdate(t)
           \/ ExecNotify(t, NotRun)
        /\ UNCHANGED RunOthers

\* the runtime polls every spawned task, so an await whose operation has
\* ended is resumed; the script ends
SpecLogFair ==
    SpecLog /\ \A id \in 1..(MaxLogExec + 1) : WF_vars(ExecuteStep(id))

(***************************************************************************)
(* The scheduler loop to its end: senders put commands in the channel and  *)
(* are dropped at some point; the loop takes the timer branch or the       *)
(* channel branch of the select, and breaks when recv gives None.  The     *)
(* definition set at the start is any of several, with malformed           *)
(* expressions at either position or without any valid expression.         *)
(***************************************************************************)

\* "a" with an expression that does not parse, before and after "b"
CfgBadFirst == <<WorkflowConfig("a", CronBad, "s1", None),
                 WorkflowConfig("b", CronA, "s1", None)>>
CfgBadLast == <<WorkflowConfig("b", CronA, "s1", None),
                WorkflowConfig("a", CronBad, "s1", None)>>
\* no workflow has a valid expression
CfgBad == <<WorkflowConfig("a", CronBad, "s1", None)>>
\* the empty definition set
CfgEmpty == << >>

\* both workflows with a valid expression
CfgValid == <<WorkflowConfig("a", CronA, "s1", None),
              WorkflowConfig("b", CronA, "s1", None)>>

LoopConfigs == {CfgBadFirst, CfgBadLast, CfgBad, CfgEmpty}
LoopCommands == {Trigger("a"), Reload(CfgValid), Reload(CfgEmpty)}

\* Sender::send by a holder of a sender, while there is one: Trigger by the
\* RPC, Reload by the reload task with the definitions it has loaded from
\* the file as that then is
Send(cmd) ==
    /\ ~closed
    /\ Len(chan) < MaxLoopChan
    /\ Len(chan) < ChannelCapacity
    /\ chan' = Append(chan, cmd)
    /\ file' = IF cmd.type = "Reload" THEN FileOf(cmd.config) ELSE file
    /\ UNCHANGED <<notices, lastCmd, closed, loop>>
    /\ UNCHANGED schedVars

\* the last sender is dropped: the channel is closed
DropSenders ==
    /\ ~closed
    /\ closed' = TRUE
    /\ UNCHANGED <<chanVars, loop>>
    /\ UNCHANGED schedVars

\* a loop that breaks as soon as the channel is closed, whatever is buffered
RecvNoneAtClose ==
    /\ loop = "select"
    /\ closed
    /\ loop' = "stopped"
    /\ UNCHANGED <<chanVars, closed>>
    /\ UNCHANGED schedVars

\* scheduler_loop, line 76: rx.recv() gives None, which it does once every
\* sender is dropped and every buffered command received; break
RecvNone ==
    /\ loop = "select"
    /\ closed
    /\ chan = << >>
    /\ loop' = "stopped"
    /\ UNCHANGED <<chanVars, closed>>
    /\ UNCHANGED schedVars

\* the branches of the select are taken while the loop runs
LoopTimer == loop = "select" /\ TimerWake /\ UNCHANGED <<chanVars, loopVars>>
LoopRecv == loop = "select" /\ RecvCommand /\ UNCHANGED loopVars

InitLoop ==
    /\ config \in LoopConfigs
    /\ states = << >>
    /\ tasks = {}
    /\ nextId = 1
    /\ db = << >>
    /\ now = 0
    /\ wake = NextWake(config, 0)
    /\ fired = {}
    /\ definedThroughout = [n \in Names |-> FindWorkflow(config, n) # None]
    /\ file = FileOf(config)
    /\ notices = 0
    /\ chan = << >>
    /\ lastCmd = None
    /\ DueIdle
    /\ CronIdle
    /\ RunIdle
    /\ LoopIdle
    /\ SideIdle

LoopOthers == <<dueVars, cronVars, runVars, sideVars>>

NextLoop ==
    \/ \E cmd \in LoopCommands : Send(cmd) /\ UNCHANGED LoopOthers
    \/ (DropSenders /\ UNCHANGED LoopOthers)
    \/ (LoopRecv /\ nextId' <= MaxLoopExec + 1 /\ UNCHANGED LoopOthers)
    \/ (RecvNone /\ UNCHANGED LoopOthers)
    \/ (LoopTimer /\ nextId' <= MaxLoopExec + 1 /\ UNCHANGED LoopOthers)
    \/ \E t \in tasks : ExecStart(t) /\ UNCHANGED restVars
    \/ \E t \in tasks : ExecStartFailsBeforeInsert(t) /\ UNCHANGED restVars
    \/ \E t \in tasks : ExecFinish(t, "exit0") /\ UNCHANGED restVars
    \/ \E t \in tasks : Complete(t) /\ UNCHANGED restVars
    \/ (Tick(MaxLoopTime) /\ UNCHANGED restVars)

SpecLoop == InitLoop /\ [][NextLoop]_vars

\* recv is ready at once on a channel that is closed and empty, so the
\* select takes it however often the timer branch is ready too
SpecLoopFair == SpecLoop /\ WF_vars(RecvNone /\ UNCHANGED LoopOthers)

(***************************************************************************)
(* The queries on the executions table on their own: a table is drawn (any *)
(* rows as execute_workflow inserts them, start times in whole seconds),   *)
(* then get_executions, get_last_execution and GetWorkflowStatus are       *)
(* evaluated on it.  ORDER BY started_at leaves the order of rows with the *)
(* same start time open, so each query has a set of possible results.      *)
(***************************************************************************)

\* the orders of the rows ids that ORDER BY started_at DESC allows
OrderedDesc(table, ids) ==
    {p \in [1..Cardinality(ids) -> ids] :
        /\ \A i, j \in DOMAIN p : i # j => p[i] # p[j]
        /\ \A i, j \in DOMAIN p :
              i < j => table[p[i]].started_at >= table[p[j]].started_at}

\* get_executions with ORDER BY started_at ASC
get_executions_oldest_first(table, workflow, limit) ==
    LET matching == {i \in DOMAIN table : table[i].workflow = workflow}
        n == Min({limit, Cardinality(matching)})
    IN  {[k \in 1..n |-> table[p[Cardinality(matching) + 1 - k]]] :
            p \in OrderedDesc(table, matching)}

\* get_executions: SELECT ... WHERE workflow = ?1 ORDER BY started_at DESC
\* LIMIT ?2; the results the store may give
get_executions(table, workflow, limit) ==
    LET matching == {i \in DOMAIN table : table[i].workflow = workflow}
        n == Min({limit, Cardinality(matching)})
    IN  {[k \in 1..n |-> table[p[k]]] : p \in OrderedDesc(table, matching)}

\* get_last_execution that pops from the rows of the status query
get_last_execution_of_many(table, workflow) ==
    {IF execs = << >> THEN None ELSE Some(execs[Len(execs)]) :
        execs \in get_executions(table, workflow, StatusLimit)}

\* get_last_execution: get_executions with limit 1, then Vec::pop
get_last_execution(table, workflow) ==
    {IF execs = << >> THEN None ELSE Some(execs[Len(execs)]) :
        execs \in get_executions(table, workflow, 1)}

\* server.rs get_workflow_status: the executions of the response, where the
\* config file loads and has the workflow; None stands for the error status
get_workflow_status(table, f, name) ==
    LET loaded == load_config(f)
    IN  IF loaded = None \/ FindWorkflow(loaded[1], name) = None THEN {None}
        ELSE {Some(execs) : execs \in get_executions(table, name, StatusLimit)}

\* server.rs 73-76 and 119-122: the status of a workflow from its last
\* execution
workflow_status(last) ==
    IF last # None /\ last[1].status = "Running" THEN "running" ELSE "idle"

\* server.rs list_workflows: the status the response may give for a
\* workflow of the config file
list_workflows(table, f, name) ==
    LET loaded == load_config(f)
    IN  IF loaded = None \/ FindWorkflow(loaded[1], name) = None THEN {}
        ELSE {workflow_status(last) : last \in get_last_execution(table, name)}

\* server.rs get_workflow_status: the status the response may give, from
\* executions.first()
workflow_info_status(table, f, name) ==
    {workflow_status(IF r[1] = << >> THEN None ELSE Some(r[1][1])) :
        r \in get_workflow_status(table, f, name) \ {None}}

\* the tables drawn: rows 1..n, each of any workflow and start time
Tables ==
    UNION {{[i \in 1..n |-> Execution(i, f[i][1], f[i][2])] :
               f \in [1..n -> Names \X (0..MaxStart)]} : n \in 0..MaxRows}

InitQuery ==
    /\ config = Cfg0
    /\ states = << >>
    /\ tasks = {}
    /\ nextId = 1
    /\ db \in Tables
    /\ now = 0
    /\ wake = NextWake(Cfg0, 0)
    /\ fired = {}
    /\ definedThroughout = [n \in Names |-> FindWorkflow(Cfg0, n) # None]
    /\ DueIdle
    /\ CronIdle
    /\ ChanIdle
    /\ RunIdle
    /\ LoopIdle
    /\ SideIdle

\* the three queries are made for a workflow, the first with the limit given
Query(workflow, limit) ==
    /\ query = None
    /\ query' = Some([workflow |-> workflow, limit |-> limit])
    /\ \E execs \in get_executions(db, workflow, limit) :
       \E last \in get_last_execution(db, workflow) :
       \E status \in get_workflow_status(db, file, workflow) :
          queryResult' = Some([executions |-> execs, last |-> last,
                               status |-> status])
    /\ UNCHANGED <<schedVars, dueVars, cronVars, chanVars, runVars, loopVars,
                   reloadVars, tailVars>>

NextQuery == \E w \in Names : \E l \in 0..MaxLimit : Query(w, l)

SpecQuery == InitQuery /\ [][NextQuery]_vars

(***************************************************************************)
(* The hot reload of the definitions from the start of run: the config     *)
(* file is loaded, then the watcher is installed; from then on each write  *)
(* of the file posts a notice unless four are waiting; the reload task     *)
(* takes a notice, loads the file and sends Reload, and the scheduler      *)
(* receives it.  The file is written at any time, with a definition set or *)
(* with text that does not parse.  The clock stands still.                 *)
(***************************************************************************)
ReloadContents == {FileOf(Cfg0), FileOf(Cfg2), Unparsable}

\* config.rs 36-45: the file is written; the callback of the watcher, once
\* there is one, posts a notice with try_send
FileWritten(f) ==
    /\ file' = f
    /\ notices' = IF watching THEN try_send(notices) ELSE notices
    /\ UNCHANGED <<chan, lastCmd, reloaded, watching>>
    /\ UNCHANGED schedVars

\* run, line 25: watch_config installs the watcher
watch_config ==
    /\ ~watching
    /\ watching' = TRUE
    /\ UNCHANGED <<chanVars, reloaded>>
    /\ UNCHANGED schedVars

\* run, lines 28-29 and 36-38: the reload task takes a notice and loads the
\* file; an error is logged and the next notice awaited
ReloadLoad ==
    /\ reloaded = None
    /\ notices > 0
    /\ notices' = notices - 1
    /\ reloaded' = load_config(file)
    /\ UNCHANGED <<file, chan, lastCmd, watching>>
    /\ UNCHANGED schedVars

\* run, lines 30-35: the reload task sends Reload with what it loaded, once
\* the channel has room
ReloadSend ==
    /\ reloaded # None
    /\ Len(chan) < MaxReloadChan
    /\ Len(chan) < ChannelCapacity
    /\ chan' = Append(chan, Reload(reloaded[1]))
    /\ reloaded' = None
    /\ UNCHANGED <<file, notices, lastCmd, watching>>
    /\ UNCHANGED schedVars

\* the scheduler takes the oldest command of the channel
ReloadRecv ==
    /\ RecvCommand
    /\ UNCHANGED <<dueVars, cronVars, runVars, loopVars, queryVars, tailVars,
                   reloadVars>>

\* run, lines 16-24: the file has loaded, the scheduler runs with its
\* definitions, the notice channel is there and the watcher is not yet
InitReload ==
    /\ file \in {f \in ReloadContents : load_config(f) # None}
    /\ config = load_config(file)[1]
    /\ states = << >>
    /\ tasks = {}
    /\ nextId = 1
    /\ db = << >>
    /\ now = 0
    /\ wake = NextWake(config, 0)
    /\ fired = {}
    /\ definedThroughout = [n \in Names |-> FindWorkflow(config, n) # None]
    /\ notices = 0
    /\ chan = << >>
    /\ lastCmd = None
    /\ watching = FALSE
    /\ reloaded = None
    /\ DueIdle
    /\ CronIdle
    /\ RunIdle
    /\ LoopIdle
    /\ QueryIdle
    /\ TailIdle

ReloadOthers == <<dueVars, cronVars, runVars, loopVars, queryVars, tailVars>>

NextReload ==
    \/ \E f \in ReloadContents : FileWritten(f) /\ UNCHANGED ReloadOthers
    \/ (watch_config /\ UNCHANGED ReloadOthers)
    \/ (ReloadLoad /\ UNCHANGED ReloadOthers)
    \/ (ReloadSend /\ UNCHANGED ReloadOthers)
    \/ ReloadRecv

SpecReload == InitReload /\ [][NextReload]_vars

\* run goes on to install the watcher; the reload task and the scheduler
\* are polled by the runtime; nothing makes the file be written
SpecReloadFair ==
    /\ SpecReload
    /\ WF_vars(watch_config /\ UNCHANGED ReloadOthers)
    /\ WF_vars(ReloadLoad /\ UNCHANGED ReloadOthers)
    /\ WF_vars(ReloadSend /\ UNCHANGED ReloadOthers)
    /\ WF_vars(ReloadRecv)

(***************************************************************************)
(* The log viewer of the terminal client beside an execution: the viewer   *)
(* selects an execution of the list and follows its log file while         *)
(* execute_workflow appends to it.  The viewer and the runner are two      *)
(* processes, so the writes of the one fall between any two file           *)
(* operations of the other.  The file is counted in parts, as it is        *)
(* written; a part is a line of the viewer.                                *)
(***************************************************************************)
TailRest == <<schedVars, dueVars, cronVars, chanVars, runVars, loopVars,
              queryVars, reloadVars>>

\* executor.rs 54-55: the log file is created, empty
ExecCreateLog(t) ==
    /\ t.pc = "inserted"
    /\ logs' = File_create(logs, t.id)
    /\ SetTask(t, [t EXCEPT !.pc = "created"])
    /\ UNCHANGED <<RunRest, db, sent>>

\* executor.rs 57-67: the starting line is written to it, then the script
\* is spawned
ExecWriteHeader(t) ==
    /\ t.pc = "created"
    /\ logs' = write_all(logs, t.id, <<StartingLine>>)
    /\ SetTask(t, [t EXCEPT !.pc = "run"])
    /\ UNCHANGED <<RunRest, db, sent>>

\* app.rs 86-108: select_execution of an execution of the list; if its log
\* file is there, load_log_from_start opens it and reads its lines to the
\* end
select_execution(id) ==
    /\ viewer.pc = "idle"
    /\ id \in DOMAIN db
    /\ log_file_pos' = 0
    /\ IF id \in DOMAIN logs
       THEN /\ log_path' = Some(id)
            /\ log_lines' = logs[id]
            /\ viewer' = [pc |-> "load_len", current_len |-> 0]
       ELSE /\ log_path' = None
            /\ log_lines' = << >>
            /\ viewer' = viewer
    /\ UNCHANGED TailRest

\* app.rs 109-113: load_log_from_start takes the length of the file as the
\* offset
load_log_from_start_len ==
    /\ viewer.pc = "load_len"
    /\ log_file_pos' = Len(logs[log_path[1]])
    /\ viewer' = [pc |-> "idle", current_len |-> 0]
    /\ UNCHANGED <<log_lines, log_path>>
    /\ UNCHANGED TailRest

\* app.rs 116-122: poll_log_updates takes the length of the file and goes
\* on if it is past the offset (it returns otherwise, nothing changed)
poll_log_updates_len ==
    /\ viewer.pc = "idle"
    /\ log_path # None
    /\ Len(logs[log_path[1]]) > log_file_pos
    /\ viewer' = [pc |-> "poll_read", current_len |-> Len(logs[log_path[1]])]
    /\ UNCHANGED <<log_lines, log_file_pos, log_path>>
    /\ UNCHANGED TailRest

\* app.rs 124-137: poll_log_updates reads from the offset to the end of the
\* file, shows what it read and sets the offset to the length taken before
poll_log_updates_read ==
    /\ viewer.pc = "poll_read"
    /\ LET content == logs[log_path[1]]
           new_lines == SubSeq(content, log_file_pos + 1, Len(content))
       IN  log_lines' = log_lines \o new_lines
    /\ log_file_pos' = viewer.current_len
    /\ viewer' = [pc |-> "idle", current_len |-> 0]
    /\ UNCHANGED log_path
    /\ UNCHANGED TailRest

InitTail ==
    /\ SchedIdle
    /\ DueIdle
    /\ CronIdle
    /\ ChanIdle
    /\ RunIdle
    /\ LoopIdle
    /\ SideIdle

NextTail ==
    \/ \E n \in TriggerNames :    \* a Trigger that starts an execution
          /\ HandleTrigger(n)
          /\ nextId' = nextId + 1
          /\ nextId' <= MaxTailExec + 1
          /\ UNCHANGED restVars
    \/ \E t \in tasks : ExecInsert(t) /\ UNCHANGED RunOthers
    \/ \E t \in tasks : ExecCreateLog(t) /\ UNCHANGED RunOthers
    \/ \E t \in tasks : ExecWriteHeader(t) /\ UNCHANGED RunOthers
    \/ \E t \in tasks : \E o \in Outcomes : \E e \in BOOLEAN :
          ExecExit(t, o, e) /\ UNCHANGED RunOthers
    \/ \E t \in tasks : ExecUpdate(t) /\ UNCHANGED RunOthers
    \/ \E t \in tasks : ExecNotify(t, NotRun) /\ UNCHANGED RunOthers
    \/ \E t \in tasks : Complete(t) /\ UNCHANGED restVars
    \/ \E id \in DOMAIN db : select_execution(id)
    \/ load_log_from_start_len
    \/ poll_log_updates_len
    \/ poll_log_updates_read

SpecTail == InitTail /\ [][NextTail]_vars

(***************************************************************************)
(* Properties.                                                             *)
(***************************************************************************)

\* the step in which the completion handler of task t runs
Completes(t) == t \in tasks /\ t.pc = "returned" /\ t \notin tasks'

RunningRows(name) ==
    {i \in DOMAIN db : db[i].workflow = name /\ db[i].status = "Running"}

\* C1: at most one execution task per workflow name is in flight at any
\* time, whatever the interleaving of triggers, timer wakes, reloads and
\* completions.
AtMostOneInFlight ==
    \A n \in Names : Cardinality(InFlight(n)) <= 1

\* C1 witness: executions of two distinct workflows in flight together.
DistinctInFlight ==
    /\ InFlight("a") # {}
    /\ InFlight("b") # {}

\* C2: for every workflow name at most one row of the store has status
\* Running, in every reachable state.
AtMostOneRunningRow ==
    \A n \in Names : Cardinality(RunningRows(n)) <= 1

\* C3: when an execution completes after its workflow was dispatched twice
\* more in the meantime, exactly one further execution of the workflow is
\* then in flight and nothing is left pending.
RerunOnceAfterTwoDispatches ==
    [][\A t \in tasks :
         (/\ Completes(t)
          /\ t.name \in DOMAIN states
          /\ states[t.name].queue = 2)
         => (/\ Cardinality({u \in tasks' : u.name = t.name}) = 1
             /\ states'[t.name].queue = 0)]_vars

\* C4: the pending backlog of a workflow is a single slot: the length of
\* WorkflowState.queue never exceeds 1.
QueueAtMostOne ==
    \A n \in DOMAIN states : states[n].queue <= 1

\* C5: whenever the run-state lock is free, a non-empty pending backlog
\* implies running == true.
PendingImpliesRunning ==
    \A n \in DOMAIN states : states[n].queue > 0 => states[n].running

\* C5 witness: the completion handler has consumed one entry of a backlog
\* and another one is left.
PendingLeftAfterCompletion ==
    \E n \in DOMAIN states : states[n].queue > 0 /\ InFlight(n) = {}

\* C6: when an execution completes while a re-run is pending, the
\* completion handler starts a new execution of the workflow, running the
\* script of the definition the scheduler has at that time.
RerunUsesCurrentScript ==
    [][\A t \in tasks :
         (/\ Completes(t)
          /\ t.name \in DOMAIN states
          /\ states[t.name].queue > 0
          /\ FindWorkflow(config, t.name) # None)
         => \E u \in tasks' :
              /\ u.name = t.name
              /\ u.script = FindWorkflow(config, t.name)[1].script]_vars

\* C7: a Reload replaces the definition set only: the run-state table, the
\* executions in flight and the execution records are unchanged by it.
ReloadChangesDefinitionsOnly ==
    [][config' # config =>
         /\ states' = states
         /\ tasks' = tasks
         /\ db' = db]_vars

\* C7 witness: a Reload without "a" was processed while "a" was executing.
ReloadedMidRun ==
    /\ FindWorkflow(config, "a") = None
    /\ InFlight("a") # {}
    /\ "a" \in DOMAIN states
    /\ states["a"].running

\* C8: fire_due_workflows dispatches a workflow at most once for one cron
\* occurrence.
NoDoubleFire ==
    \A f \in fired : \A g \in fired :
        (f.name = g.name /\ f.occ = g.occ) => f.at = g.at

\* C9: every occurrence T of a workflow that has been defined with a valid
\* expression throughout leads to a dispatch of it by a timer wake at some
\* time in [T, T+5s].
NoOccurrenceSkipped ==
    \A i \in 1..Len(config) :
        LET wf == config[i]
            schedule == ScheduleFromStr(normalize_cron(wf.cron))
        IN  (definedThroughout[wf.name] /\ schedule # None) =>
                \A T \in schedule[1] :
                    (0 < T /\ T + 5 < now) =>
                        \E f \in fired :
                            /\ f.name = wf.name
                            /\ T <= f.at
                            /\ f.at <= T + 5

\* C10: is_due is true exactly when the schedule has an occurrence t with
\* now - 5s < t <= now.
IsDueIffOccurrenceInWindow ==
    dueResult # None =>
        (dueResult[1] <=> \E t \in dueSched : dueNow - 5 < t /\ t <= dueNow)

\* C10 witness: the most recent occurrence is 3 seconds before now, and
\* is_due says true.
DueThreeSecondsAgo ==
    /\ dueResult = Some(TRUE)
    /\ (dueNow - 3) \in dueSched
    /\ \A t \in dueSched : t <= dueNow - 3

\* what the evaluation sites give for a schedule (None: no schedule)
SitesOf(schedule, t) ==
    LET next == IF schedule = None THEN None ELSE After(schedule[1], t)
    IN  [wake |-> IF next = None THEN None ELSE Some(next[1] - t),
         fires |-> schedule # None /\ is_due(schedule[1], t),
         next_run |-> next]

\* C11: normalize_cron puts a literal 0 seconds field in front of an
\* expression of exactly 5 fields and returns any other expression as it
\* is; it is idempotent; and compute_next_wake, fire_due_workflows and
\* get_next_run all evaluate a 5-field expression as its 6-field form with
\* seconds 0 (and any other expression as it stands).
NormalizeCronPrefixesZero ==
    cronResult # None =>
        LET r == cronResult[1]
            six == <<Only({0})>> \o cronExpr
            form == IF Len(cronExpr) = 5 THEN six ELSE cronExpr
            sites == SitesOf(ScheduleFromStr(form), cronNow)
        IN  /\ r.normalized = form
            /\ normalize_cron(r.normalized) = r.normalized
            /\ r.wake = sites.wake
            /\ r.fires = sites.fires
            /\ r.next_run = sites.next_run

\* C11 witness: "* * * * *" evaluated at time 0 fires, and its next run is
\* at second 0 of the next minute.
FiveFieldsEvaluated ==
    /\ cronResult # None
    /\ cronExpr = <<Star, Star, Star, Star, Star>>
    /\ cronNow = 0
    /\ cronResult[1].fires
    /\ cronResult[1].next_run = Some(60)
    /\ cronResult[1].wake = Some(60)

\* C12: when the scheduler receives Trigger(name), the loop goes back to its
\* top; if the name is not in its definition set, the definition set, the
\* run-state table, the executions and the records are left as they were;
\* if it is, the workflow is dispatched (a new execution of its script
\* starts, or, when it is running, one more entry is queued) whatever its
\* cron expression is.
UnknownTriggerIsNoOp ==
    [][(chan # << >> /\ chan' = Tail(chan) /\ Head(chan).type = "Trigger") =>
         LET name == Head(chan).name
             wf == FindWorkflow(config, name)
         IN  /\ wake' = NextWake(config, now)
             /\ config' = config
             /\ db' = db
             /\ IF wf = None
                THEN /\ states' = states
                     /\ tasks' = tasks
                     /\ nextId' = nextId
                ELSE IF name \in DOMAIN states /\ states[name].running
                THEN /\ states'[name].queue = states[name].queue + 1
                     /\ tasks' = tasks
                ELSE /\ states'[name].running
                     /\ \E t \in tasks' \ tasks :
                          /\ t.name = name
                          /\ t.script = wf[1].script
                          /\ t.pc = "start"]_vars

\* C12 witness: the scheduler has received a Trigger for "a" while "a" was
\* not in its definition set; "a" has no run-state entry, nothing is in
\* flight and nothing is recorded.
UnknownTriggerReceived ==
    /\ lastCmd = Some([type |-> "Trigger", name |-> "a", found |-> FALSE])
    /\ "a" \notin DOMAIN states
    /\ tasks = {}
    /\ db = << >>

\* C13: every Trigger that the TriggerWorkflow RPC has sent (and so
\* acknowledged) finds its name in the scheduler's definition set when the
\* scheduler receives it.
AcknowledgedTriggerAccepted ==
    (lastCmd # None /\ lastCmd[1].type = "Trigger") => lastCmd[1].found

\* C14: when the reload task takes a notice and the config file does not
\* load, nothing is sent on the command channel and the scheduler's
\* definition set, its sleep and its run-state are left as they were.
FailedReloadSendsNothing ==
    [][(notices' < notices /\ load_config(file) = None) =>
         /\ chan' = chan
         /\ config' = config
         /\ wake' = wake
         /\ states' = states
         /\ tasks' = tasks]_vars

\* C14 witness: the file does not parse and its notice has been taken; the
\* scheduler has received no command, still has the definitions it started
\* with, and its timer has dispatched "a".
RejectedReloadKeepsSchedule ==
    /\ ~file.ok
    /\ notices = 0
    /\ chan = << >>
    /\ lastCmd = None
    /\ config = Cfg0
    /\ \E f \in fired : f.name = "a"
    /\ InFlight("a") # {}

\* the execute_workflow of task t has returned Ok: it went through the
\* notification step
Notified(t) == t.pc = "returned" /\ t.local # None

\* the positions in sent of the notifications of execution id
SentFor(id) == {i \in 1..Len(sent) : sent[i].id = id}

\* the message script of t was run and ended with exit code c
MessageExited(t, c) ==
    /\ t.local[1].run # None
    /\ t.local[1].run[1].spawned
    /\ t.local[1].run[1].code = Some(c)

\* C15: when the status of an execution is Success and its message script
\* exits with code 3, no notification is dispatched for it and its record
\* has status Success.
SuppressedByExitCodeThree ==
    \A t \in tasks :
        (/\ Notified(t)
         /\ t.local[1].status = "Success"
         /\ MessageExited(t, 3))
        => /\ SentFor(t.id) = {}
           /\ db[t.id].status = "Success"

\* C15 witness: a Success execution whose message script exited 3 has
\* returned.
SuppressedExecution ==
    /\ sent = << >>
    /\ \E t \in tasks :
          /\ Notified(t)
          /\ t.local[1].status = "Success"
          /\ MessageExited(t, 3)
          /\ db[t.id].exit_code = Some(0)

\* the body the notification of a Success execution is to have
BodyFor(t) ==
    LET run == t.local[1].run
    IN  IF /\ run # None
           /\ run[1].spawned
           /\ run[1].code = Some(0)
           /\ Trim(run[1].stdout) # << >>
        THEN Trim(run[1].stdout)
        ELSE DefaultBody

\* exactly one notification was dispatched for t, with the body it is to
\* have
OneNotification(t) ==
    /\ Cardinality(SentFor(t.id)) = 1
    /\ \A i \in SentFor(t.id) :
          /\ sent[i].body = BodyFor(t)
          /\ sent[i].title = <<t.name, "succeeded">>

\* C16: for every Success execution whose message script did not
\* exit 3, exactly one notification is dispatched; its body is the trimmed
\* stdout of the message script when that exited 0 with non-empty trimmed
\* stdout, and "completed successfully" otherwise.
OneNotificationPerSuccess ==
    \A t \in tasks :
        (/\ Notified(t)
         /\ t.local[1].status = "Success"
         /\ ~MessageExited(t, 3))
        => OneNotification(t)

\* C16 witness: the message script printed " k" and a newline and exited
\* 0; the one notification dispatched has the body "k".
TrimmedStdoutAsBody ==
    \E t \in tasks :
        /\ Notified(t)
        /\ t.local[1].status = "Success"
        /\ MessageExited(t, 0)
        /\ t.local[1].run[1].stdout = <<" ", "k", "\n">>
        /\ Cardinality(SentFor(t.id)) = 1
        /\ \A i \in SentFor(t.id) : sent[i].body = <<"k">>

\* the ids an execution can have
ExecIds == 1..(MaxStoreExec + 1)

\* C17: GetExecutionLogPath gives not-found for an id that has no record
\* and, for an id that has one, the log path made for it at insertion,
\* whatever the status of the record; no step changes the log path, the
\* workflow or the start time of a record.
LogPathAsInserted ==
    /\ [](\A id \in ExecIds :
            get_execution_log_path(db, id) =
                IF id \in DOMAIN db
                THEN Some(log_path_for(db[id].workflow, id))
                ELSE None)
    /\ [][\A id \in DOMAIN db :
            /\ id \in DOMAIN db'
            /\ db'[id].log_path = db[id].log_path
            /\ db'[id].workflow = db[id].workflow
            /\ db'[id].started_at = db[id].started_at]_vars

\* C17 witness: execution 1 is completed, a second one is Running, and
\* there is no execution 3.
CompletedAndRunningRows ==
    /\ DOMAIN db = {1, 2}
    /\ db[1].status = "Success"
    /\ db[2].status = "Running"
    /\ get_execution_log_path(db, 1) = Some(log_path_for("a", 1))
    /\ get_execution_log_path(db, 3) = None

\* C18: a record is inserted with status Running, no finish time and no
\* exit code; a step changes a record only by taking it from Running to
\* Success or Failed while setting its finish time and its exit code; a
\* Success or Failed record is never changed; no record is deleted.
RecordLifecycle ==
    [][/\ \A id \in DOMAIN db' \ DOMAIN db :
             /\ db'[id].status = "Running"
             /\ db'[id].finished_at = None
             /\ db'[id].exit_code = None
       /\ \A id \in DOMAIN db :
             /\ id \in DOMAIN db'
             /\ \/ db'[id] = db[id]
                \/ /\ db[id].status = "Running"
                   /\ db'[id].status \in {"Success", "Failed"}
                   /\ db'[id].finished_at # None
                   /\ db'[id].exit_code # None
                   /\ db'[id] = [db[id] EXCEPT
                                   !.status = db'[id].status,
                                   !.finished_at = db'[id].finished_at,
                                   !.exit_code = db'[id].exit_code]]_vars

\* C18 witness: a Failed record completed at time 0 and a Success record
\* started and completed after it.
TwoCompletedRecords ==
    /\ DOMAIN db = {1, 2}
    /\ db[1].status = "Failed"
    /\ db[1].finished_at = Some(0)
    /\ db[2].status = "Success"
    /\ db[2].started_at = 1
    /\ db[2].finished_at = Some(1)

\* C19: exit code 0 is recorded as Success with 0, another exit code N as
\* Failed with N, a spawn failure as Failed with -1, and -1 is recorded for
\* a spawn failure only.
SentinelOnlyForSpawnFailure ==
    \A t \in tasks :
        (t.pc \in {"updated", "returned"} /\ t.local # None) =>
            LET outcome == t.local[1].outcome
                row == db[t.id]
            IN  /\ outcome = "exit0" =>
                    (row.status = "Success" /\ row.exit_code = Some(0))
                /\ outcome = "exit1" =>
                    (row.status = "Failed" /\ row.exit_code = Some(1))
                /\ outcome = "spawn_failure" =>
                    (row.status = "Failed" /\ row.exit_code = Some(-1))
                /\ row.exit_code = Some(-1) => outcome = "spawn_failure"

\* C20: after an execution task has panicked, its execution is recorded as
\* Failed and its workflow is not running.
PanicRecordedAndCleared ==
    \A p \in panicked :
        /\ p.id \in DOMAIN db
        /\ db[p.id].status = "Failed"
        /\ ~states[p.name].running

\* C21 (as stated): once the command channel is closed the loop exits at the
\* next select without starting any further execution.
NoExecutionAfterClose == [][closed => nextId' = nextId]_vars

\* C21 (amended): the scheduler loop stops only by receiving None from the
\* channel, which needs every sender dropped and every buffered command
\* received (those are still handled, and so is a timer wake that is ready
\* with them); nothing else stops it (an unknown-workflow trigger, an
\* invalid expression, an empty definition set, an execution that returns
\* an error); the step that stops it dispatches nothing, nothing is
\* dispatched after it, and once the channel is closed and empty the loop
\* does stop.
StopsOnlyWhenClosedAndDrained ==
    /\ [](loop = "stopped" => closed /\ chan = << >>)
    /\ [][loop = "select" /\ loop' = "stopped" =>
             /\ closed
             /\ chan = << >>
             /\ UNCHANGED <<schedVars, chanVars>>]_vars
    /\ [][loop = "stopped" =>
             /\ loop' = "stopped"
             /\ UNCHANGED <<config, nextId, wake, fired, chan>>]_vars
    /\ ((closed /\ chan = << >>) ~> (loop = "stopped"))

\* the loop has stopped; before that it received a Trigger for a workflow
\* that was not defined, and went on
StoppedAfterUnknownTrigger ==
    /\ loop = "stopped"
    /\ lastCmd # None
    /\ lastCmd[1].type = "Trigger"
    /\ ~lastCmd[1].found
    /\ \E t \in tasks : t.pc = "returned" /\ t.id \notin DOMAIN db

\* the caps of the exploration leave room for one more dispatch of each name
RoomForDispatch ==
    /\ nextId <= MaxExec
    /\ \A n \in DOMAIN states : states[n].queue < MaxQueue

\* C22: a dispatch of a workflow that is not running sets running and starts
\* exactly one execution task in the same step (and a dispatch of a running
\* one starts none); the loop never waits for an execution: while the
\* script of an execution runs, the loop takes the command at the head of
\* the channel and takes the timer branch once the sleep has elapsed.
DispatchStartsOneAndLoopGoesOn ==
    /\ [][\A n \in Names :
            LET was == n \in DOMAIN states /\ states[n].running
                started == {t \in tasks' : t.id >= nextId /\ t.name = n}
            IN  /\ ~was /\ n \in DOMAIN states' /\ states'[n].running
                      => Cardinality(started) = 1
                /\ was => started = {}
                /\ started # {} => ~was /\ states'[n].running]_vars
    /\ []((loop = "select" /\ RoomForDispatch
                /\ \E t \in tasks : t.pc \in {"start", "run"}) =>
            /\ chan # << >> => ENABLED LoopRecv
            /\ now >= wake => ENABLED LoopTimer)

\* while the script of "a" runs, the loop has received a second Trigger for
\* it, which was queued, and then a Reload; now the sleep has elapsed
LoopWentOnDuringExecution ==
    /\ loop = "select"
    /\ \E t \in tasks : t.name = "a" /\ t.pc = "run" /\ states["a"].queue > 0
    /\ lastCmd # None
    /\ lastCmd[1].type = "Reload"
    /\ now >= wake
    /\ RoomForDispatch

\* C23: within one execution the Running record is in the store before the
\* script process is spawned; an execution whose insert failed has no
\* record, and for it no process is spawned, no log file is created and no
\* notification is sent.
RunningRowBeforeSpawn ==
    /\ \A t \in tasks :
          t.pc \in {"run", "exited", "updated"} => t.id \in DOMAIN db
    /\ \A id \in (1..(nextId - 1)) \ DOMAIN db :
          /\ id \notin DOMAIN logs
          /\ SentFor(id) = {}
          /\ \A t \in tasks : t.id = id => t.pc \in {"start", "returned"}

\* the insert of execution 1 failed and it has ended without a log file or
\* a notification; the script of execution 2 runs, with its record and its
\* starting line
InsertFailedThenSpawned ==
    /\ 1 \notin DOMAIN db
    /\ 1 \notin DOMAIN logs
    /\ \A t \in tasks : t.id # 1
    /\ \E t \in tasks :
          /\ t.pc = "run"
          /\ db[t.id].status = "Running"
          /\ logs[t.id] = <<StartingLine>>

\* C24: the running flag of a workflow is set as long as a task of it has
\* not returned from execute_workflow (so while its script runs, whatever
\* the store did), and it is cleared only in the step of the completion
\* handler, after the return, when the script has exited or was never
\* spawned.
RunningUntilReturned ==
    /\ [](\A t \in tasks :
            t.pc # "returned" =>
                t.name \in DOMAIN states /\ states[t.name].running)
    /\ [][\A n \in DOMAIN states :
            states[n].running /\ ~states'[n].running =>
                \E t \in tasks : t.name = n /\ Completes(t)]_vars

\* two executions have completed and the flag is cleared: the insert of the
\* first failed (no process), the update of the second failed after its
\* script had ended (its record still says Running)
ClearedAfterStoreErrors ==
    /\ tasks = {}
    /\ panicked = {}
    /\ "a" \in DOMAIN states
    /\ ~states["a"].running
    /\ 1 \notin DOMAIN db
    /\ 2 \in DOMAIN db
    /\ db[2].status = "Running"
    /\ 2 \in DOMAIN logs
    /\ Len(logs[2]) > 1

\* the record of t in the store is the completed one: the status and the
\* exit code of the primary execution, and a finish time
Persisted(t) ==
    /\ t.id \in DOMAIN db
    /\ db[t.id].status = t.local[1].status
    /\ db[t.id].exit_code = Some(t.local[1].exit_code)
    /\ db[t.id].finished_at # None

\* C25: the completed status, finish time and exit code are persisted
\* before the message script is evaluated; the step that evaluates it
\* leaves the store unchanged whatever the script does, and it ends with
\* execute_workflow returning Ok.
MessageScriptLeavesRecord ==
    /\ [](\A t \in tasks :
            t.pc = "updated" \/ Notified(t) => Persisted(t))
    /\ [][\A t \in tasks :
            t.pc = "updated" /\ t \notin tasks' /\ panicked' = panicked =>
                /\ db' = db
                /\ \E u \in tasks' : u.id = t.id /\ Notified(u)]_vars

\* the primary execution succeeded with exit code 0 and is recorded so; its
\* message script then exited with 1 or could not be spawned
MessageScriptFailedAfterSuccess ==
    \E t \in tasks :
        /\ Notified(t)
        /\ t.local[1].run # None
        /\ \/ MessageExited(t, 1)
           \/ ~t.local[1].run[1].spawned
        /\ db[t.id].status = "Success"
        /\ db[t.id].exit_code = Some(0)

\* C26: when the status of the primary execution is Failed the message
\* script is not evaluated and exactly one notification is dispatched, with
\* the title for failures and the fixed (empty) default body, whether or
\* not a message script is configured; no notification is dispatched for a
\* status of Running.
FailedNotifiedWithDefaultBody ==
    /\ \A t \in tasks :
          Notified(t) /\ t.local[1].status = "Failed" =>
              /\ t.local[1].run = None
              /\ Cardinality(SentFor(t.id)) = 1
              /\ \A i \in SentFor(t.id) :
                    /\ sent[i].title = <<t.name, "failed">>
                    /\ sent[i].body = << >>
    /\ \A i \in 1..Len(sent) :
          /\ sent[i].title[2] \in {"succeeded", "failed"}
          /\ sent[i].id \in DOMAIN db
          /\ db[sent[i].id].status # "Running"

\* a workflow with a message script has failed with exit code 1 and its one
\* notification was dispatched
FailedWithMessageScript ==
    \E t \in tasks :
        /\ Notified(t)
        /\ t.message_script # None
        /\ t.local[1].outcome = "exit1"
        /\ Cardinality(SentFor(t.id)) = 1

\* the step is a timer wake of the scheduler loop
TimerStep == now >= wake /\ wake' # wake /\ chan' = chan

\* the step dispatches workflow n: it starts a task for it or queues it
DispatchedIn(n) ==
    \/ \E t \in tasks' : t.id >= nextId /\ t.name = n
    \/ /\ n \in DOMAIN states
       /\ states'[n].queue = states[n].queue + 1

\* the workflows of a definition set whose expression parses
ValidOnly(cfg) ==
    SelectSeq(cfg, LAMBDA wf : ScheduleFromStr(normalize_cron(wf.cron)) # None)

\* C27: on a timer wake every workflow of the definition set whose
\* expression is valid and which is due is dispatched, and none whose
\* expression is malformed, wherever the malformed ones are in the set; and
\* the next wake is the one computed from the valid ones alone.
MalformedCronSkipped ==
    [][TimerStep =>
         /\ \A i \in 1..Len(config) :
               LET wf == config[i]
                   schedule == ScheduleFromStr(normalize_cron(wf.cron))
               IN  IF schedule = None THEN ~DispatchedIn(wf.name)
                   ELSE is_due(schedule[1], now) <=> DispatchedIn(wf.name)
         /\ wake' = NextWake(ValidOnly(config), now)]_vars

\* "a" comes first with a malformed expression; "b", after it, was
\* dispatched by the timer at its occurrence
DispatchedAfterMalformed ==
    /\ config = CfgBadFirst
    /\ \E f \in fired : f.name = "b" /\ f.occ = 1
    /\ \E t \in tasks : t.name = "b"
    /\ "a" \notin DOMAIN states

\* the occurrences after t of the workflows of cfg with a valid expression
Upcoming(cfg, t) ==
    UNION {LET schedule == ScheduleFromStr(normalize_cron(cfg[i].cron))
           IN  IF schedule = None THEN {}
               ELSE {o \in schedule[1] : o > t} : i \in 1..Len(cfg)}

\* the definition set has no workflow with a valid expression
Fallback(cfg) == ValidOnly(cfg) = << >>

\* the step ends an iteration of the loop: a timer wake or a command taken
LoopStep == TimerStep \/ (chan # << >> /\ chan' = Tail(chan))

Matching == {i \in DOMAIN db : db[i].workflow = query[1].workflow}

\* execs are n rows of the workflow asked for, each once, the most recent
\* first, and no row left out started after one of them
MostRecentFirst(execs, n) ==
    /\ Len(execs) = n
    /\ \A k \in DOMAIN execs :
          execs[k].id \in Matching /\ execs[k] = db[execs[k].id]
    /\ \A i, j \in DOMAIN execs : i # j => execs[i].id # execs[j].id
    /\ \A i, j \in DOMAIN execs :
          i < j => execs[i].started_at >= execs[j].started_at
    /\ \A m \in Matching :
          (\A k \in DOMAIN execs : execs[k].id # m) =>
              \A k \in DOMAIN execs : execs[k].started_at >= db[m].started_at

\* C29: get_executions(workflow, limit) returns only records of that
\* workflow, at most limit of them (all of them when there are fewer),
\* ordered by started-at descending, and no record left out is more recent
\* than one returned; get_last_execution returns absent when the workflow
\* has no record and otherwise a record that comes first in that ordering;
\* GetWorkflowStatus returns such a list of at most 50 records.
ExecutionsMostRecentFirst ==
    queryResult # None =>
        LET r == queryResult[1]
            count == Cardinality(Matching)
        IN  /\ Len(r.executions) <= query[1].limit
            /\ MostRecentFirst(r.executions, Min({query[1].limit, count}))
            /\ IF count = 0 THEN r.last = None
               ELSE r.last # None /\ MostRecentFirst(<<r.last[1]>>, 1)
            /\ r.status # None
            /\ Len(r.status[1]) <= StatusLimit
            /\ MostRecentFirst(r.status[1], Min({StatusLimit, count}))

\* the workflow asked for has two records and the other workflow one that
\* is as recent; with limit 1 the more recent of the two is returned
OneOfTwoReturned ==
    /\ queryResult # None
    /\ query[1].limit = 1
    /\ Cardinality(Matching) = 2
    /\ \E i, j \in Matching : db[i].started_at < db[j].started_at
    /\ \E i \in DOMAIN db \ Matching : db[i].started_at = MaxStart
    /\ Len(queryResult[1].executions) = 1
    /\ queryResult[1].executions[1].started_at = MaxStart

IsPrefix(s, t) == Len(s) <= Len(t) /\ SubSeq(t, 1, Len(s)) = s

\* the complete logs: of a script that ended with a code, without and with
\* stderr, and of a script that could not be spawned
CompleteLogs ==
    {<<StartingLine, StdoutPart, FinishedLine(c)>> : c \in {0, 1, -1}}
    \cup {<<StartingLine, StdoutPart, StderrDelimiter, StderrPart,
            FinishedLine(c)>> : c \in {0, 1, -1}}
    \cup {<<StartingLine, SpawnErrorLine>>}

\* C30: the log file of an execution is append-only (its content stays a
\* prefix of its later content) and written by that execution alone; the
\* content is always a prefix of: the starting line, stdout, the stderr
\* delimiter and stderr only if stderr is not empty, the finished line with
\* the exit code, or of the starting line and the spawn-error line; the
\* starting line is there before the script is spawned, and once the script
\* has ended the log is the complete one for its outcome.
LogAppendOnlyInOrder ==
    /\ [][\A id \in DOMAIN logs :
            id \in DOMAIN logs' /\ IsPrefix(logs[id], logs'[id])]_vars
    /\ [][\A id \in DOMAIN logs' :
            (id \notin DOMAIN logs \/ logs'[id] # logs[id]) =>
                \E t \in tasks : t.id = id /\ t \notin tasks'
                                 /\ t.pc \in {"inserted", "run"}]_vars
    /\ [](\A id \in DOMAIN logs :
            \E full \in CompleteLogs : IsPrefix(logs[id], full))
    /\ [](\A t \in tasks :
            /\ t.pc = "run" => logs[t.id] = <<StartingLine>>
            /\ t.local # None =>
                  logs[t.id] =
                     IF t.local[1].outcome = "spawn_failure"
                     THEN <<StartingLine, SpawnErrorLine>>
                     ELSE <<StartingLine, StdoutPart>>
                          \o (IF t.local[1].stderr
                              THEN <<StderrDelimiter, StderrPart>>
                              ELSE << >>)
                          \o <<FinishedLine(t.local[1].exit_code)>>)

\* the script of execution 1 could not be spawned; the script of execution
\* 2 wrote to stderr and exited with code 1
SpawnErrorAndStderrLogs ==
    /\ 1 \in DOMAIN logs
    /\ logs[1] = <<StartingLine, SpawnErrorLine>>
    /\ 2 \in DOMAIN logs
    /\ logs[2] = <<StartingLine, StdoutPart, StderrDelimiter, StderrPart,
                   FinishedLine(1)>>

\* execute_workflow for execution id has ended with Err, at the log file or
\* at the update (the task is about to end, or has ended)
EndedInError(id) ==
    \A t \in tasks : t.id = id => t.pc = "returned" /\ t.local = None

\* C31: a record changes only once, from Running to Success or Failed, and
\* only in the update of the execution that inserted it, while the
\* workflow's running flag is still set; a task that ends after Ok leaves
\* its record completed; a Running record is eventually either completed
\* or left by a call that ended with Err at the log file or at the update,
\* and then it stays Running.
RecordCompletedByItsCall ==
    /\ [][\A i \in DOMAIN db :
            /\ i \in DOMAIN db'
            /\ db[i].status # "Running" => db'[i] = db[i]
            /\ db[i].status = "Running" /\ db'[i] # db[i] =>
                  /\ db'[i].status \in {"Success", "Failed"}
                  /\ \E t \in tasks :
                        /\ t.id = i
                        /\ t.pc = "exited"
                        /\ states[t.name].running
                        /\ [t EXCEPT !.pc = "updated"] \in tasks']_vars
    /\ [][\A t \in tasks :
            /\ \A u \in tasks' : u.id # t.id
            /\ t.local # None
            => /\ db[t.id].status \in {"Success", "Failed"}
               /\ db'[t.id] = db[t.id]]_vars
    /\ \A i \in 1..MaxLogExec :
          (i \in DOMAIN db /\ db[i].status = "Running")
              ~> ((i \in DOMAIN db /\ db[i].status # "Running")
                     \/ EndedInError(i))

\* the record of execution 1 was left Running by a call that ended with
\* Err; execution 2 has completed its record and has returned, and the
\* running flag is still set
StuckAndCompletedRecords ==
    /\ 1 \in DOMAIN db /\ db[1].status = "Running"
    /\ \A t \in tasks : t.id # 1
    /\ 2 \in DOMAIN db /\ db[2].status = "Success"
    /\ \E t \in tasks : t.id = 2 /\ t.pc = "returned" /\ t.local # None
    /\ states["a"].running

\* C32: the running flag of a workflow is set exactly when an execution
\* task of that workflow is in flight (spawned, and its completion handler
\* not yet finished).
RunningIffInFlight ==
    \A n \in Names :
        (n \in DOMAIN states /\ states[n].running) <=> InFlight(n) # {}

\* the status ListWorkflows or GetWorkflowStatus may report for a workflow
Reported(n) ==
    list_workflows(db, file, n) \cup workflow_info_status(db, file, n)

RowsOf(n) == {i \in DOMAIN db : db[i].workflow = n}
LatestOf(n) ==
    {i \in RowsOf(n) : \A j \in RowsOf(n) : db[j].started_at <= db[i].started_at}

ReloadConverges ==
    \A f \in {g \in ReloadContents : load_config(g) # None} :
        <>[](file = f) => <>[](config = load_config(f)[1])

\* C35: whenever the viewer has finished a load or a poll, the lines shown
\* are the file up to the recorded offset, each part once and in order,
\* and the offset is the number of parts shown.
TailShowsEveryByteOnce ==
    log_path # None /\ viewer.pc = "idle"
        => /\ log_file_pos = Len(log_lines)
           /\ log_file_pos <= Len(logs[log_path[1]])
           /\ log_lines = SubSeq(logs[log_path[1]], 1, log_file_pos)

====
